---------------------------- MODULE Spec2Model ----------------------------
(***************************************************************************)
(* Attestation policy and mutual-identity verification of the SPIRE mTLS   *)
(* demo (phase_4_tpm/mtls_demo.py and the policy helpers of its tests).    *)
(*                                                                         *)
(* Python strings are sequences of one-character strings, so that          *)
(* lower(), startswith, `in` and the regular expressions are computed on   *)
(* characters.                                                             *)
(***************************************************************************)
EXTENDS Integers, Sequences, FiniteSets, TLC

VARIABLES
    call,      \* the most recent call of a policy helper: its name, arguments, result
    main,      \* the __main__ block of phase_4's mtls_demo.py: position, what
               \* fetch_svids met and returned, arguments, output
    srv,       \* run_server: position, listening socket, connection being served,
               \* open connection its variable conn refers to
    cli,       \* run_client, one per client process: position, credentials
    conn,      \* the TCP/TLS connections, one per client
    srvLog,    \* what run_server printed, in order, for each connection (0: for none)
    cliLog     \* what the run_client processes printed, in order

vars == <<call, main, srv, cli, conn, srvLog, cliLog>>
pureVars == <<call>>
sessionVars == <<srv, cli, conn, srvLog, cliLog>>

\* no policy helper is being called
NoCall == [fn |-> "none"]

\* a command run by subprocess.run: it exits, times out, or cannot be started
CmdRun(kind, returncode, stdout, stderr) ==
    [kind |-> kind, returncode |-> returncode, stdout |-> stdout, stderr |-> stderr]

\* what fetch_svids meets: the agent binary, the agent socket, the fetch
\* command's run and the run of check_tpm_attestation's query
NoEnvironment ==
    [binary |-> FALSE, socket |-> FALSE,
     fetch |-> CmdRun("none", 0, <<>>, <<>>), tpm |-> CmdRun("none", 0, <<>>, <<>>)]

\* how a call of fetch_svids ends: the exception that left it ("" for none),
\* the value returned, whether check_tpm_attestation was called, the lines printed
FetchOutcome(raised, returned, tpm_checked, lines) ==
    [raised |-> raised, returned |-> returned, tpm_checked |-> tpm_checked, lines |-> lines]

\* the process before line 258
MainInit ==
    [pc |-> "start", env |-> NoEnvironment, fetch |-> FetchOutcome("", FALSE, FALSE, <<>>),
     argv |-> <<>>, files |-> {}, called |-> {}, sys_exit |-> <<>>, lines |-> <<>>]

---------------------------------------------------------------------------
(* Characters and Python's str operations                                  *)

UpperChars == <<"A", "B", "C", "D", "E", "F", "G", "H", "I", "J", "K", "L", "M", "N", "O", "P", "Q", "R", "S", "T", "U", "V", "W", "X", "Y", "Z">>
LowerChars == <<"a", "b", "c", "d", "e", "f", "g", "h", "i", "j", "k", "l", "m", "n", "o", "p", "q", "r", "s", "t", "u", "v", "w", "x", "y", "z">>
DigitChars == <<"0", "1", "2", "3", "4", "5", "6", "7", "8", "9">>

Range(s) == {s[i] : i \in 1..Len(s)}

\* str.lower() on one character (ASCII)
LowerChar(c) ==
    IF \E i \in 1..Len(UpperChars) : UpperChars[i] = c
    THEN LowerChars[CHOOSE i \in 1..Len(UpperChars) : UpperChars[i] = c]
    ELSE c

\* str.lower()
Lower(s) == [i \in 1..Len(s) |-> LowerChar(s[i])]

\* s.startswith(p)
StartsWith(s, p) == Len(s) >= Len(p) /\ SubSeq(s, 1, Len(p)) = p

\* `p in s` for strings: p occurs in s as a contiguous substring
Contains(s, p) ==
    \E i \in 1..(Len(s) - Len(p) + 1) : SubSeq(s, i, i + Len(p) - 1) = p

\* the character classes of the regular expressions
IsDigit(c) == c \in Range(DigitChars)
HexChars == Range(DigitChars) \cup Range(<<"a", "b", "c", "d", "e", "f", "A", "B", "C", "D", "E", "F">>)
IsHex(c) == c \in HexChars
TrustDomainChars ==
    Range(UpperChars) \cup Range(LowerChars) \cup Range(DigitChars) \cup {".", "-"}
IsTrustDomainChar(c) == c \in TrustDomainChars

DigitVal(c) == (CHOOSE i \in 1..Len(DigitChars) : DigitChars[i] = c) - 1

\* int(s) for a string of decimal digits
RECURSIVE ParseInt(_)
ParseInt(s) ==
    IF Len(s) = 0 THEN 0
    ELSE 10 * ParseInt(SubSeq(s, 1, Len(s) - 1)) + DigitVal(s[Len(s)])

\* the end of the longest run of characters of a class that starts at p:
\* the position after the run (a greedy `+` or `*`)
RunEnd(s, p, class) ==
    LET stops == {i \in p..Len(s) : s[i] \notin class}
    IN  IF stops = {} THEN Len(s) + 1
        ELSE CHOOSE i \in stops : \A j \in stops : i <= j

\* `$` of Python's re without re.MULTILINE, tried at position p: it matches at
\* the end of the string and also just before a newline that ends the string
DollarAt(s, p) == p = Len(s) + 1 \/ (p = Len(s) /\ s[p] = "\n")

\* the literal lit occurs in s at position p
LiteralAt(s, p, lit) ==
    p + Len(lit) - 1 <= Len(s) /\ SubSeq(s, p, p + Len(lit) - 1) = lit

---------------------------------------------------------------------------
(* The policy helpers (tests/test_tpm_setup.py)                            *)

valid_hash_lengths == {32, 40, 48, 64, 96, 128}

\* re.match(r'^tpm:pcr:([0-9]|1[0-9]|2[0-3]):([0-9a-fA-F]+)$', selector):
\* the positions after group 1 that its three alternatives allow at p, in the
\* order the regular expression tries them
PcrIndexAlternatives(s, p) ==
    (IF p <= Len(s) /\ IsDigit(s[p]) THEN <<p + 1>> ELSE <<>>)
    \o (IF p + 1 <= Len(s) /\ s[p] = "1" /\ IsDigit(s[p + 1]) THEN <<p + 2>> ELSE <<>>)
    \o (IF p + 1 <= Len(s) /\ s[p] = "2" /\ s[p + 1] \in {"0", "1", "2", "3"}
        THEN <<p + 2>> ELSE <<>>)

\* the rest of the pattern after group 1, tried at q: ':' ([0-9a-fA-F]+) '$'
PcrTailMatches(s, q) ==
    /\ q <= Len(s) /\ s[q] = ":"
    /\ RunEnd(s, q + 1, HexChars) > q + 1
    /\ DollarAt(s, RunEnd(s, q + 1, HexChars))

NoMatch == [matched |-> FALSE, g1 |-> <<>>, g2 |-> <<>>]

PcrSelectorMatch(s) ==
    LET p == Len(<<"t", "p", "m", ":", "p", "c", "r", ":">>) + 1
        alts == PcrIndexAlternatives(s, p)
        good == {k \in 1..Len(alts) : PcrTailMatches(s, alts[k])}
    IN  IF ~LiteralAt(s, 1, <<"t", "p", "m", ":", "p", "c", "r", ":">>) \/ good = {} THEN NoMatch
        ELSE LET k == CHOOSE k \in good : \A j \in good : k <= j
                 q == alts[k]
             IN  [matched |-> TRUE,
                  g1 |-> SubSeq(s, p, q - 1),
                  g2 |-> SubSeq(s, q + 1, RunEnd(s, q + 1, HexChars) - 1)]

validate_pcr_selector_format(selector) ==
    LET match == PcrSelectorMatch(selector)
    IN  IF ~match.matched THEN FALSE
        ELSE LET pcr_index == ParseInt(match.g1)
                 hash_len == Len(match.g2)
             IN  IF pcr_index < 0 \/ pcr_index > 23 THEN FALSE
                 ELSE IF hash_len \notin valid_hash_lengths THEN FALSE
                 ELSE TRUE

\* re.match(r'^spiffe://[a-zA-Z0-9.-]+/spire/agent/tpm/[0-9a-fA-F]+$', spiffe_id)
\* The trust-domain class holds no '/', so its greedy run ends at the first '/'
\* and no shorter run can be followed by the literal.
validate_tpm_agent_spiffe_id_format(spiffe_id) ==
    LET tdStart == Len(<<"s", "p", "i", "f", "f", "e", ":", "/", "/">>) + 1
        tdEnd == RunEnd(spiffe_id, tdStart, TrustDomainChars)
        hexStart == tdEnd + Len(<<"/", "s", "p", "i", "r", "e", "/", "a", "g", "e", "n", "t", "/", "t", "p", "m", "/">>)
        hexEnd == RunEnd(spiffe_id, hexStart, HexChars)
    IN  /\ LiteralAt(spiffe_id, 1, <<"s", "p", "i", "f", "f", "e", ":", "/", "/">>)
        /\ tdEnd > tdStart
        /\ LiteralAt(spiffe_id, tdEnd, <<"/", "s", "p", "i", "r", "e", "/", "a", "g", "e", "n", "t", "/", "t", "p", "m", "/">>)
        /\ hexEnd > hexStart
        /\ DollarAt(spiffe_id, hexEnd)

simulate_ak_ek_validation_partial(ak_cert_valid, ek_pub_key_valid, ak_signed_by_ek) ==
    ak_cert_valid /\ ek_pub_key_valid

simulate_ak_ek_validation(ak_cert_valid, ek_pub_key_valid, ak_signed_by_ek) ==
    ak_cert_valid /\ ek_pub_key_valid /\ ak_signed_by_ek

\* a matcher that is content with one digest being the beginning of the other
simulate_pcr_match_check_prefix(registered_pcr_hash, current_pcr_hash) ==
    LET registered_normalized == Lower(registered_pcr_hash)
        current_normalized == Lower(current_pcr_hash)
    IN  StartsWith(registered_normalized, current_normalized)
            \/ StartsWith(current_normalized, registered_normalized)

simulate_pcr_match_check_raw(registered_pcr_hash, current_pcr_hash) ==
    registered_pcr_hash = current_pcr_hash

simulate_pcr_match_check(registered_pcr_hash, current_pcr_hash) ==
    LET registered_normalized == Lower(registered_pcr_hash)
        current_normalized == Lower(current_pcr_hash)
    IN  registered_normalized = current_normalized

MismatchMessage(registered_normalized, current_normalized) ==
    <<"P", "C", "R", " ", "m", "i", "s", "m", "a", "t", "c", "h", " ", "d", "e", "t", "e", "c", "t", "e", "d", ":", " ", "E", "x", "p", "e", "c", "t", "e", "d", ":", " ">> \o registered_normalized
        \o <<",", " ", "A", "c", "t", "u", "a", "l", ":", " ">> \o current_normalized

\* a matcher that compares only as many characters as the shorter digest has
simulate_pcr_mismatch_check_truncating(registered_pcr_hash, current_pcr_hash) ==
    LET registered_normalized == Lower(registered_pcr_hash)
        current_normalized == Lower(current_pcr_hash)
        n == IF Len(registered_normalized) < Len(current_normalized)
             THEN Len(registered_normalized) ELSE Len(current_normalized)
    IN  IF SubSeq(registered_normalized, 1, n) = SubSeq(current_normalized, 1, n)
        THEN [denied |-> FALSE, message |-> <<>>]
        ELSE [denied |-> TRUE,
              message |-> MismatchMessage(registered_normalized, current_normalized)]

simulate_pcr_mismatch_check(registered_pcr_hash, current_pcr_hash) ==
    LET registered_normalized == Lower(registered_pcr_hash)
        current_normalized == Lower(current_pcr_hash)
    IN  IF registered_normalized = current_normalized
        THEN [denied |-> FALSE, message |-> <<>>]
        ELSE [denied |-> TRUE,
              message |-> MismatchMessage(registered_normalized, current_normalized)]

\* lines 782-794 with both status words in every message
StatusMessage_both_words(tpm_in_parent_id, tpm_in_logs, tpm_device_accessible) ==
    <<"T", "P", "M", " ", "A", "T", "T", "E", "S", "T", "A", "T", "I", "O", "N", " ", "I", "S", " ", "A", "C", "T", "I", "V", "E", " ", "O", "R", " ", "I", "N", "A", "C", "T", "I", "V", "E">>

StatusMessage(tpm_in_parent_id, tpm_in_logs, tpm_device_accessible) ==
    IF tpm_in_parent_id
    THEN IF tpm_in_logs /\ tpm_device_accessible
         THEN <<"T", "P", "M", " ", "A", "T", "T", "E", "S", "T", "A", "T", "I", "O", "N", " ", "I", "S", " ", "A", "C", "T", "I", "V", "E", " ", "-", " ", "A", "l", "l", " ", "c", "h", "e", "c", "k", "s", " ", "p", "a", "s", "s", "e", "d">>
         ELSE IF tpm_in_logs
         THEN <<"T", "P", "M", " ", "A", "T", "T", "E", "S", "T", "A", "T", "I", "O", "N", " ", "I", "S", " ", "A", "C", "T", "I", "V", "E", " ", "-", " ", "D", "e", "v", "i", "c", "e", " ", "a", "c", "c", "e", "s", "s", "i", "b", "i", "l", "i", "t", "y", " ", "c", "h", "e", "c", "k", " ", "f", "a", "i", "l", "e", "d">>
         ELSE <<"T", "P", "M", " ", "A", "T", "T", "E", "S", "T", "A", "T", "I", "O", "N", " ", "I", "S", " ", "A", "C", "T", "I", "V", "E", " ", "-", " ", "S", "o", "m", "e", " ", "c", "h", "e", "c", "k", "s", " ", "f", "a", "i", "l", "e", "d">>
    ELSE IF tpm_device_accessible
         THEN <<"T", "P", "M", " ", "A", "T", "T", "E", "S", "T", "A", "T", "I", "O", "N", " ", "I", "S", " ", "I", "N", "A", "C", "T", "I", "V", "E", " ", "-", " ", "T", "P", "M", " ", "d", "e", "v", "i", "c", "e", " ", "a", "v", "a", "i", "l", "a", "b", "l", "e", " ", "b", "u", "t", " ", "n", "o", "t", " ", "c", "o", "n", "f", "i", "g", "u", "r", "e", "d">>
         ELSE <<"T", "P", "M", " ", "A", "T", "T", "E", "S", "T", "A", "T", "I", "O", "N", " ", "I", "S", " ", "I", "N", "A", "C", "T", "I", "V", "E", " ", "-", " ", "T", "P", "M", " ", "d", "e", "v", "i", "c", "e", " ", "n", "o", "t", " ", "a", "c", "c", "e", "s", "s", "i", "b", "l", "e">>

\* a report that calls attestation active as soon as any indicator is true
simulate_verification_status_report_any(tpm_in_parent_id, tpm_in_logs, tpm_device_accessible) ==
    LET is_active == tpm_in_parent_id \/ tpm_in_logs \/ tpm_device_accessible
    IN  [status_message |-> StatusMessage(is_active, tpm_in_logs, tpm_device_accessible),
         is_active |-> is_active]

simulate_verification_status_report(tpm_in_parent_id, tpm_in_logs, tpm_device_accessible) ==
    LET is_active == tpm_in_parent_id
    IN  [status_message |-> StatusMessage(is_active, tpm_in_logs, tpm_device_accessible),
         is_active |-> is_active]

\* lines 584-596
init_keywords ==
    <<<<"i", "n", "i", "t">>, <<"s", "t", "a", "r", "t">>, <<"o", "p", "e", "n">>, <<"l", "o", "a", "d">>, <<"a", "t", "t", "e", "s", "t", "o", "r">>, <<"p", "l", "u", "g", "i", "n">>, <<"d", "e", "v", "i", "c", "e">>,
      <<"a", "t", "t", "e", "s", "t", "a", "t", "i", "o", "n">>, <<"k", "e", "y", " ", "g", "e", "n", "e", "r", "a", "t", "e", "d">>, <<"c", "o", "m", "p", "l", "e", "t", "e">>, <<"s", "u", "c", "c", "e", "s", "s">>>>

\* a check that looks for a keyword without asking for 'tpm'
simulate_log_check_for_tpm_initialization_keyword_only(log_content) ==
    LET normalized_log == Lower(log_content)
    IN  \E k \in 1..Len(init_keywords) : Contains(normalized_log, init_keywords[k])

simulate_log_check_for_tpm_initialization(log_content) ==
    LET normalized_log == Lower(log_content)
    IN  IF ~Contains(normalized_log, <<"t", "p", "m">>) THEN FALSE
        ELSE \E k \in 1..Len(init_keywords) : Contains(normalized_log, init_keywords[k])

\* str.split(sep, maxsplit) for a one-character separator
RECURSIVE Split(_, _, _)
Split(s, sep, maxsplit) ==
    LET at == {i \in 1..Len(s) : s[i] = sep}
    IN  IF maxsplit = 0 \/ at = {} THEN <<s>>
        ELSE LET i == CHOOSE i \in at : \A j \in at : i <= j
             IN  <<SubSeq(s, 1, i - 1)>> \o Split(SubSeq(s, i + 1, Len(s)), sep, maxsplit - 1)

simulate_agent_parent_id_check(agent_spiffe_id) ==
    LET normalized_id == Lower(agent_spiffe_id)
        parts == Split(normalized_id, "/", 3)
    IN  IF Contains(normalized_id, <<"t", "p", "m">>)
        THEN IF Contains(normalized_id, <<"s", "p", "i", "f", "f", "e", ":", "/", "/">>)
             THEN IF Len(parts) >= 4 THEN Contains(parts[4], <<"t", "p", "m">>)
                  ELSE IF Len(parts) = 3 THEN Contains(parts[3], <<"t", "p", "m">>)
                  ELSE TRUE
             ELSE TRUE
        ELSE FALSE

---------------------------------------------------------------------------
(* extract_spiffe_id (mtls_demo.py)                                        *)

\* Python values: None, and a str
None == [type |-> "NoneType", value |-> <<>>]
Str(v) == [type |-> "str", value |-> v]

\* further Python values a caller can pass: an int and a list of strings
PyInt(digits) == [type |-> "int", value |-> digits]
PyList(items) == [type |-> "list", value |-> items]

\* an exception left the try block of lines 121-126
Raised == [type |-> "raise", value |-> <<>>]

\* a dict is a function from its keys; every other value carries its type
IsDict(v) == "type" \notin DOMAIN v

\* The loop of lines 123-125 from entry i on.  `for alt_name_type,
\* alt_name_value in ...` raises ValueError on an entry that is not a pair.
RECURSIVE ScanAltNames(_, _)
ScanAltNames(san, i) ==
    IF i > Len(san) THEN None
    ELSE IF Len(san[i]) # 2 THEN Raised
    ELSE IF san[i][1] = "URI" /\ StartsWith(san[i][2], <<"s", "p", "i", "f", "f", "e", ":", "/", "/">>) THEN Str(san[i][2])
    ELSE ScanAltNames(san, i + 1)

\* the same loop without the test of the entry's type
RECURSIVE ScanAltNamesAnyType(_, _)
ScanAltNamesAnyType(san, i) ==
    IF i > Len(san) THEN None
    ELSE IF Len(san[i]) # 2 THEN None
    ELSE IF StartsWith(san[i][2], <<"s", "p", "i", "f", "f", "e", ":", "/", "/">>) THEN Str(san[i][2])
    ELSE ScanAltNamesAnyType(san, i + 1)

extract_spiffe_id_any_type(cert) ==
    IF "subjectAltName" \in DOMAIN cert
    THEN ScanAltNamesAnyType(cert["subjectAltName"], 1)
    ELSE None

\* lines 122-126, the body of the try block.  cert is the dict of
\* SSLSocket.getpeercert(), or whatever else the caller passes: `in` is a
\* substring test on a str and an element test on a list, where
\* cert['subjectAltName'] then raises TypeError; on None and on an int `in`
\* itself raises TypeError.
extract_spiffe_id_body(cert) ==
    IF IsDict(cert)
    THEN IF "subjectAltName" \in DOMAIN cert
         THEN ScanAltNames(cert["subjectAltName"], 1)
         ELSE None
    ELSE IF cert.type = "str"
    THEN IF Contains(cert.value, <<"s", "u", "b", "j", "e", "c", "t", "A", "l", "t", "N", "a", "m", "e">>) THEN Raised ELSE None
    ELSE IF cert.type = "list"
    THEN IF \E i \in 1..Len(cert.value) : cert.value[i] = <<"s", "u", "b", "j", "e", "c", "t", "A", "l", "t", "N", "a", "m", "e">>
         THEN Raised ELSE None
    ELSE Raised

\* extract_spiffe_id without its handler: the exception reaches the caller
extract_spiffe_id_unguarded(cert) == extract_spiffe_id_body(cert)

\* lines 121-129: the handler of lines 127-129 prints a warning and returns
\* None for every exception of the body
extract_spiffe_id(cert) ==
    LET returned == extract_spiffe_id_body(cert)
    IN  IF returned = Raised THEN None ELSE returned

---------------------------------------------------------------------------
(* The inputs the policy helpers are called with                           *)

MaxDigestLen == 3
MaxSanLen == 2

\* digests for the matcher: every string over these characters up to MaxDigestLen
DigestChars == {"a", "A", "b", "0"}
Digests == UNION {[1..n -> DigestChars] : n \in 0..MaxDigestLen}

\* selectors are assembled from a prefix, an index text, a separator, a digest
\* and a tail; the digest has a length at or next to one of the valid lengths
SelectorPrefixes ==
    {<<"t", "p", "m", ":", "p", "c", "r", ":">>, <<"p", "c", "r", ":">>, <<"d", "o", "c", "k", "e", "r", ":", "p", "c", "r", ":">>, <<"t", "p", "m", ":", "p", "c", "r">>, <<"T", "P", "M", ":", "P", "C", "R", ":">>}
SelectorIndexTexts ==
    {<<"0">>, <<"5">>, <<"9">>, <<"1", "0">>, <<"1", "9">>, <<"2", "0">>, <<"2", "3">>, <<"2", "4">>, <<"-", "1">>, <<"0", "1">>, <<"1", "0", "0">>, <<>>}
SelectorSeparators == {<<":">>, <<>>}
SelectorDigestChars == {<<"a", "a">>, <<"A", "f">>, <<"7", "g">>, <<"g", "g">>}
SelectorDigestLengths ==
    {0} \cup UNION {{n - 1, n, n + 1} : n \in valid_hash_lengths}
SelectorTails == {<<>>, <<"\n">>, <<":", "e", "x", "t", "r", "a">>, <<"\n", "\n">>}

\* a digest of length n that alternates the two characters of pair
PatternDigest(pair, n) == [i \in 1..n |-> pair[2 - (i % 2)]]

\* agent identities are assembled from a scheme, a trust domain, a path, a
\* suffix and a tail
IdSchemes == {<<"s", "p", "i", "f", "f", "e", ":", "/", "/">>, <<"S", "P", "I", "F", "F", "E", ":", "/", "/">>, <<"h", "t", "t", "p", ":", "/", "/">>}
IdTrustDomains == {<<"e", "x", "a", "m", "p", "l", "e", ".", "o", "r", "g">>, <<"t", "p", "m", "-", "c", "o", "m", "p", "a", "n", "y", ".", "c", "o", "m">>, <<"t", "d", "_", "1">>, <<>>}
IdPaths ==
    {<<"/", "s", "p", "i", "r", "e", "/", "a", "g", "e", "n", "t", "/", "t", "p", "m", "/">>, <<"/", "s", "p", "i", "r", "e", "/", "a", "g", "e", "n", "t", "/", "j", "o", "i", "n", "_", "t", "o", "k", "e", "n", "/">>, <<"/", "s", "p", "i", "r", "e", "/", "a", "g", "e", "n", "t", "/", "t", "p", "m">>,
     <<"/", "s", "p", "i", "r", "e", "/", "a", "g", "e", "n", "t", "/">>, <<"/", "S", "P", "I", "R", "E", "/", "a", "g", "e", "n", "t", "/", "t", "p", "m", "/">>, <<"/", "s", "p", "i", "r", "e", "/", "a", "g", "e", "n", "t", "/", "T", "P", "M", "/">>, <<"/", "t", "p", "m", "/">>}
IdSuffixes == {<<"a", "3", "f", "5", "d", "8", "c", "2", "e", "1", "b", "4">>, <<"A", "3", "F", "5">>, <<"a", "b", "c", "1", "2", "3", "x", "y", "z">>, <<"a", "b", "/", "c", "d">>, <<>>}
IdTails == {<<>>, <<"\n">>, <<"/">>, <<" ">>}

\* subjectAltName entries: (type, value) pairs, and entries that are no pair
\* agent identities for simulate_agent_parent_id_check: scheme, trust domain, path
ParentIdSchemes == {<<"s", "p", "i", "f", "f", "e", ":", "/", "/">>, <<"S", "P", "I", "F", "F", "E", ":", "/", "/">>, <<>>}
ParentIdTrustDomains == {<<"e", "x", "a", "m", "p", "l", "e", ".", "o", "r", "g">>, <<"t", "p", "m", "-", "c", "o", "m", "p", "a", "n", "y", ".", "c", "o", "m">>, <<"T", "P", "M", ".", "i", "o">>}
ParentIdPaths ==
    {<<>>, <<"/">>, <<"/", "s", "p", "i", "r", "e", "/", "a", "g", "e", "n", "t", "/", "t", "p", "m", "/", "a", "b">>, <<"/", "s", "p", "i", "r", "e", "/", "a", "g", "e", "n", "t", "/", "j", "o", "i", "n", "_", "t", "o", "k", "e", "n", "/", "a", "b">>,
     <<"/", "a", "g", "e", "n", "t", "/", "T", "P", "M">>, <<"/", "a", "/", "b", "/", "t", "p", "m">>}

\* agent logs for simulate_log_check_for_tpm_initialization: up to
\* MaxLogLines lines, joined by newlines
MaxLogLines == 2
LogLines ==
    {<<"T", "P", "M">>, <<"t", "p", "m", " ", "p", "l", "u", "g", "i", "n", " ", "l", "o", "a", "d", "e", "d">>, <<"A", "g", "e", "n", "t", " ", "S", "t", "a", "r", "t", "e", "d">>, <<"h", "e", "l", "l", "o">>, <<>>,
     <<"K", "e", "y", " ", "G", "e", "n", "e", "r", "a", "t", "e", "d">>, <<"k", "e", "y">>, <<"g", "e", "n", "e", "r", "a", "t", "e", "d">>}
RECURSIVE JoinLines(_)
JoinLines(lines) ==
    IF Len(lines) = 0 THEN <<>>
    ELSE IF Len(lines) = 1 THEN lines[1]
    ELSE lines[1] \o <<"\n">> \o JoinLines(Tail(lines))
Logs == {JoinLines(lines) : lines \in UNION {[1..n -> LogLines] : n \in 1..MaxLogLines}}

SanTypes == {"URI", "DNS", "IP Address"}
SanValues == {<<"s", "p", "i", "f", "f", "e", ":", "/", "/", "a", "/", "w">>, <<"s", "p", "i", "f", "f", "e", ":", "/", "/", "b">>, <<"s", "p", "i", "f", "f", "e", ":", "/", "a">>, <<"a", ".", "c", "o", "m">>}
SanPairs == {<<t, v>> : t \in SanTypes, v \in SanValues}
SanMalformed == {<<"URI">>, <<"URI", <<"s", "p", "i", "f", "f", "e", ":", "/", "/", "a", "/", "w">>, <<"x">>>>}
SanLists == UNION {[1..n -> SanPairs \cup SanMalformed] : n \in 0..MaxSanLen}

\* the dict of getpeercert(): with a subjectAltName key, without one, and empty
CertWithSan(san) ==
    [k \in {"subject", "issuer", "subjectAltName"} |->
        IF k = "subjectAltName" THEN san ELSE <<>>]
CertWithoutSan == [k \in {"subject", "issuer"} |-> <<>>]
CertEmpty == [k \in {} |-> <<>>]
CertDicts == {CertWithSan(san) : san \in SanLists} \cup {CertWithoutSan, CertEmpty}

\* values that are no dict: None (getpeercert() of a peer without a
\* certificate), strings, an int, lists
NonDictValues ==
    {None, Str(<<"a", "b", "c">>), Str(<<"s", "u", "b", "j", "e", "c", "t", "A", "l", "t", "N", "a", "m", "e">>), PyInt(<<"5">>),
     PyList(<<>>), PyList(<<<<"s", "u", "b", "j", "e", "c", "t", "A", "l", "t", "N", "a", "m", "e">>>>)}

---------------------------------------------------------------------------
(* The mutual-TLS session (mtls_demo.py): credentials and the handshake    *)

MaxClients == 2

\* the processes that connect to port 9999
Clients == 1..MaxClients

\* Certificate authorities: the trust domain's own, an unrelated one, and one
\* of the operating system's default trust store
CAs == {"spire", "unrelated", "public"}

\* an X.509 certificate: who signed it and its subjectAltName entries
NoCert == [issuer |-> "none", san |-> <<>>]
UriSan == <<<<"DNS", <<"a", ".", "c", "o", "m">>>>, <<"URI", <<"s", "p", "i", "f", "f", "e", ":", "/", "/", "a", "/", "w">>>>>>
DnsSan == <<<<"DNS", <<"a", ".", "c", "o", "m">>>>>>
Cert(issuer, san) == [issuer |-> issuer, san |-> san]

\* the certificates svid.0.pem can hold on either side: one of the trust
\* domain with an identity, one of the trust domain without an identity, and
\* one that another authority signed
Certs ==
    {Cert("spire", UriSan), Cert("spire", DnsSan),
     Cert("unrelated", UriSan), Cert("public", UriSan)}

\* what a connecting process presents: one of these, or no certificate; to
\* the responder every authority outside its bundle is alike
PeerCerts == {cert \in Certs : cert.issuer # "public"} \cup {NoCert}

\* bundle.0.pem holds the trust domain's authority; the operating system's
\* store, which load_default_certs() reads, holds a public authority
Bundle == {"spire"}
SystemStore == {"public"}

\* the two greetings of lines 249 and 189; b'' is ""
ClientGreeting == "Hello from SPIRE Client!"
ServerGreeting == "Secure Hello from SPIRE Server!"

\* lines 133-136 with a peer that presents no certificate admitted
ServerTrustsPeer_optional(peerCert, bundle) ==
    peerCert = NoCert \/ peerCert.issuer \in bundle

\* run_server's context, lines 133-136: create_default_context(CLIENT_AUTH)
\* loads no default certificates (its verify_mode is CERT_NONE at that time),
\* verify_mode = CERT_REQUIRED demands a peer certificate, and
\* load_verify_locations(bundle.0.pem) gives the only trust anchors
ServerTrustsPeer(peerCert, bundle) ==
    peerCert # NoCert /\ peerCert.issuer \in bundle

\* run_client's context, lines 202-205: create_default_context(SERVER_AUTH)
\* sets CERT_REQUIRED and, given no cafile, calls load_default_certs(), so the
\* system store's authorities are trust anchors next to those of
\* load_verify_locations(bundle.0.pem); check_hostname = False leaves
\* verify_mode at CERT_REQUIRED
ClientTrustAnchors(bundle, systemStore) == bundle \cup systemStore

ClientTrustsPeer(peerCert, bundle, systemStore) ==
    peerCert # NoCert /\ peerCert.issuer \in ClientTrustAnchors(bundle, systemStore)

\* getpeercert() giving a dict without the subjectAltName key
PeerCertDict_without_names(cert) == CertWithoutSan

\* SSLSocket.getpeercert() of a verified peer: the dict of its certificate
PeerCertDict(cert) == CertWithSan(cert.san)

\* lines 168-178 and 229-239: the first URI name of the process's own
\* certificate that starts with 'spiffe://', None when there is none
OwnSpiffeId(cert) ==
    LET at == {i \in 1..Len(cert.san) :
                 cert.san[i][1] = "URI" /\ StartsWith(cert.san[i][2], <<"s", "p", "i", "f", "f", "e", ":", "/", "/">>)}
    IN  IF at = {} THEN None
        ELSE Str(cert.san[CHOOSE i \in at : \A j \in at : i <= j][2])

\* `if spiffe_id:` -- None and the empty string are false
Truthy(v) == v # None /\ v.value # <<>>

NoConn ==
    [tcp |-> "none",        \* none | connected
     srvFlight |-> FALSE,   \* the responder sent its hello and certificate
     cliFlight |-> "none",  \* none | sent | aborted: the initiator's answer
     srvHs |-> "pending",   \* pending | ok | failed: wrap_socket's outcome
     c2s |-> <<>>,          \* payload sent by the initiator, not yet read
     s2c |-> <<>>,          \* payload sent by the responder, not yet read
     cliClosed |-> FALSE,   \* the initiator's end is closed
     srvClosed |-> FALSE,   \* the responder's end is closed
     srvRecvd |-> <<>>,     \* what run_server's recv returned on it
     srvSent |-> <<>>,      \* what run_server sent on it
     cliRecvd |-> <<>>,     \* what run_client's recv returned on it
     cliSent |-> <<>>]      \* what run_client sent on it

NoClient ==
    [pc |-> "start", cert |-> NoCert, bundle |-> {}, systemStore |-> {}]

SrvLine(line, value) == [line |-> line, value |-> value]

\* run_server handles one connection at a time, so the lines of two
\* connections never interleave
SrvPrints(c, lines) == srvLog' = [srvLog EXCEPT ![c] = @ \o lines]

\* lines 191-192 with the error ending the loop
SrvConnectionError_stops(c) ==
    /\ srv' = [srv EXCEPT !.pc = "done", !.cur = 0]
    /\ SrvPrints(c, <<SrvLine("connection_error", "")>>)

\* the handler of lines 191-192: the error is printed and the loop goes on;
\* the handler closes nothing
SrvConnectionError(c) ==
    /\ srv' = [srv EXCEPT !.pc = "accept", !.cur = 0]
    /\ SrvPrints(c, <<SrvLine("connection_error", "")>>)

\* run_server printed 'Connection error' for connection c
HadConnectionError(c) ==
    \E i \in 1..Len(srvLog[c]) : srvLog[c][i].line = "connection_error"

SessionInit ==
    /\ srv = [pc |-> "start", listening |-> FALSE, cert |-> NoCert, bundle |-> {},
              tls13 |-> TRUE, cur |-> 0, held |-> 0]
    /\ cli = [c \in Clients |-> NoClient]
    /\ conn = [c \in Clients |-> NoConn]
    /\ srvLog = [c \in {0} \cup Clients |-> <<>>]
    /\ cliLog = [c \in Clients |-> <<>>]

---------------------------------------------------------------------------
(* run_server, lines 131-195                                               *)

\* lines 133-142: the context is built from svid.0.pem, svid.0.key and
\* bundle.0.pem, the socket is bound and listens; the OpenSSL the process
\* runs with settles whether its sessions are TLS 1.3 or TLS 1.2
SrvSetup ==
    /\ srv.pc = "start"
    /\ \E cert \in Certs, v13 \in BOOLEAN :
         srv' = [srv EXCEPT !.pc = "accept", !.listening = TRUE,
                            !.cert = cert, !.bundle = Bundle, !.tls13 = v13]
    /\ SrvPrints(0, <<SrvLine("listening", "")>>)
    /\ UNCHANGED <<call, main, cli, conn, cliLog>>

\* lines 133-141 raise (a file cannot be loaded, the port is taken): the
\* handler of lines 194-195 prints the error and run_server returns
SrvSetupFails ==
    /\ srv.pc = "start"
    /\ srv' = [srv EXCEPT !.pc = "done"]
    /\ SrvPrints(0, <<SrvLine("error", "")>>)
    /\ UNCHANGED <<call, main, cli, conn, cliLog>>

\* the connections waiting in the listening socket's queue
Backlog == {c \in Clients : conn[c].tcp = "connected" /\ ~conn[c].srvFlight}

\* line 146, and line 147 as far as the responder's first flight: accept
\* returns the connection that has waited longest (the processes connect in
\* the order of their numbers), the hello and the certificate go out,
\* wrap_socket blocks
SrvAccept ==
    /\ srv.pc = "accept"
    /\ \E c \in Backlog :
         /\ \A d \in Backlog : c <= d
         /\ srv' = [srv EXCEPT !.pc = "handshake", !.cur = c]
         /\ conn' = [conn EXCEPT ![c].srvFlight = TRUE]
    /\ UNCHANGED <<call, main, cli, srvLog, cliLog>>

\* what lines 148-158 print for a verified peer
SrvPeerLines(c) ==
    LET client_spiffe_id == extract_spiffe_id(PeerCertDict(cli[c].cert))
    IN  <<SrvLine("accepted", ""), SrvLine("verified_client_identity", "")>>
        \o (IF Truthy(client_spiffe_id)
            THEN <<SrvLine("spiffe_id", client_spiffe_id.value)>> ELSE <<>>)

\* what lines 160-185 print
SrvOwnLines(c) ==
    LET client_spiffe_id == extract_spiffe_id(PeerCertDict(cli[c].cert))
        server_spiffe_id == OwnSpiffeId(srv.cert)
    IN  (IF Truthy(server_spiffe_id)
         THEN <<SrvLine("server_spiffe_id", server_spiffe_id.value)>> ELSE <<>>)
        \o <<SrvLine("handshake_successful", "")>>
        \o (IF Truthy(client_spiffe_id)
            THEN <<SrvLine("client_identity", client_spiffe_id.value)>> ELSE <<>>)

\* line 147 returning whatever certificate the initiator answered with
HandshakeCompletes_unverified(c) == conn[c].cliFlight = "sent"

\* line 147 returned
HandshakeCompletes(c) ==
    conn[c].cliFlight = "sent" /\ ServerTrustsPeer(cli[c].cert, srv.bundle)

\* line 147 assigns conn: the SSLSocket of an earlier iteration that line 190
\* did not close loses its last reference, and CPython closes it
ConnAssigned(c) ==
    [d \in Clients |->
        IF d = c THEN [conn[d] EXCEPT !.srvHs = "ok"]
        ELSE IF d = srv.held THEN [conn[d] EXCEPT !.srvClosed = TRUE]
        ELSE conn[d]]

\* lines 147-185: wrap_socket returns, the initiator having answered with a
\* certificate that verifies, and both identities are printed.  getpeercert()
\* is None for a peer that presented no certificate: line 154 prints and line
\* 155 raises.
SrvHandshakeOk ==
    /\ srv.pc = "handshake"
    /\ HandshakeCompletes(srv.cur)
    /\ conn' = ConnAssigned(srv.cur)
    /\ IF cli[srv.cur].cert = NoCert
       THEN /\ srv' = [srv EXCEPT !.pc = "accept", !.cur = 0, !.held = srv.cur]
            /\ SrvPrints(srv.cur, <<SrvLine("accepted", ""),
                                    SrvLine("verified_client_identity", ""),
                                    SrvLine("connection_error", "")>>)
       ELSE /\ srv' = [srv EXCEPT !.pc = "recv", !.held = srv.cur]
            /\ SrvPrints(srv.cur, SrvPeerLines(srv.cur) \o SrvOwnLines(srv.cur))
    /\ UNCHANGED <<call, main, cli, cliLog>>

\* line 147 raises: the initiator aborted, or its certificate is missing or
\* untrusted; SSLSocket closes the transport before it raises
SrvHandshakeFails ==
    /\ srv.pc = "handshake"
    /\ conn[srv.cur].cliFlight # "none"
    /\ ~HandshakeCompletes(srv.cur)
    /\ conn' = [conn EXCEPT ![srv.cur].srvHs = "failed", ![srv.cur].srvClosed = TRUE]
    /\ SrvConnectionError(srv.cur)
    /\ UNCHANGED <<call, main, cli, cliLog>>

\* lines 147-166: wrap_socket returns and lines 148-158 print, then lines
\* 164-166 raise (the cryptography package is missing, the file does not
\* parse): nothing but the loop's handler catches it
SrvOwnIdFails ==
    /\ srv.pc = "handshake"
    /\ HandshakeCompletes(srv.cur)
    /\ cli[srv.cur].cert # NoCert
    /\ conn' = ConnAssigned(srv.cur)
    /\ srv' = [srv EXCEPT !.pc = "accept", !.cur = 0, !.held = srv.cur]
    /\ SrvPrints(srv.cur, SrvPeerLines(srv.cur) \o <<SrvLine("connection_error", "")>>)
    /\ UNCHANGED <<call, main, cli, cliLog>>

\* lines 187-188: recv returns the initiator's payload
SrvRecv ==
    /\ srv.pc = "recv"
    /\ conn[srv.cur].c2s # <<>>
    /\ conn' = [conn EXCEPT ![srv.cur].c2s = Tail(@),
                            ![srv.cur].srvRecvd = Append(@, Head(conn[srv.cur].c2s))]
    /\ SrvPrints(srv.cur, <<SrvLine("received", Head(conn[srv.cur].c2s))>>)
    /\ srv' = [srv EXCEPT !.pc = "send"]
    /\ UNCHANGED <<call, main, cli, cliLog>>

\* lines 187-188: the initiator closed without sending, recv returns b''
SrvRecvEof ==
    /\ srv.pc = "recv"
    /\ conn[srv.cur].c2s = <<>> /\ conn[srv.cur].cliClosed
    /\ SrvPrints(srv.cur, <<SrvLine("received", "")>>)
    /\ srv' = [srv EXCEPT !.pc = "send"]
    /\ UNCHANGED <<call, main, cli, conn, cliLog>>

\* line 187 raises: the initiator's end went away without a TLS shutdown
SrvRecvFails ==
    /\ srv.pc = "recv"
    /\ conn[srv.cur].c2s = <<>> /\ conn[srv.cur].cliClosed
    /\ SrvConnectionError(srv.cur)
    /\ UNCHANGED <<call, main, cli, conn, cliLog>>

\* lines 189-190, and back to line 146: the greeting is sent and the
\* connection closed; the greeting reaches the initiator unless its end is
\* closed
SrvSend ==
    /\ srv.pc = "send"
    /\ conn' = [conn EXCEPT ![srv.cur].srvSent = Append(@, ServerGreeting),
                            ![srv.cur].s2c = IF conn[srv.cur].cliClosed THEN @
                                             ELSE Append(@, ServerGreeting),
                            ![srv.cur].srvClosed = TRUE]
    /\ srv' = [srv EXCEPT !.pc = "accept", !.cur = 0, !.held = 0]
    /\ UNCHANGED <<call, main, cli, srvLog, cliLog>>

\* line 189 raises: the initiator's end is closed
SrvSendFails ==
    /\ srv.pc = "send"
    /\ conn[srv.cur].cliClosed
    /\ SrvConnectionError(srv.cur)
    /\ UNCHANGED <<call, main, cli, conn, cliLog>>

---------------------------------------------------------------------------
(* run_server of phase_1/mtls_demo.py, lines 8-37: the same context and    *)
(* the same exchange, for one connection and without a loop.  Its steps    *)
(* have their own program points, so a behaviour is phase_4's responder or *)
(* phase_1's from its first step on.                                       *)

Phase1 == srv.pc \in {"p1_accept", "p1_handshake", "p1_recv", "p1_send", "p1_done"}

\* run_server returning to an accept instead
Phase1Returns_loops ==
    [srv EXCEPT !.pc = "p1_accept", !.cur = 0]

\* run_server returns, after line 35 or after its handler: the listening
\* socket is closed by line 35 or with the function's frame
Phase1Returns ==
    [srv EXCEPT !.pc = "p1_done", !.cur = 0, !.listening = FALSE]

\* the handler of lines 36-37 prints the error and run_server returns; the
\* connection goes with the function's frame
Phase1Error(c) ==
    /\ srv' = Phase1Returns
    /\ SrvPrints(c, <<SrvLine("error", "")>>)

\* lines 10-19
Phase1Setup ==
    /\ srv.pc = "start"
    /\ \E cert \in Certs, v13 \in BOOLEAN :
         srv' = [srv EXCEPT !.pc = "p1_accept", !.listening = TRUE,
                            !.cert = cert, !.bundle = Bundle, !.tls13 = v13]
    /\ SrvPrints(0, <<SrvLine("listening", "")>>)
    /\ UNCHANGED <<call, main, cli, conn, cliLog>>

\* lines 10-18 raise
Phase1SetupFails ==
    /\ srv.pc = "start"
    /\ Phase1Error(0)
    /\ UNCHANGED <<call, main, cli, conn, cliLog>>

\* line 21, and line 22 as far as the responder's first flight
Phase1Accept ==
    /\ srv.pc = "p1_accept"
    /\ \E c \in Backlog :
         /\ \A d \in Backlog : c <= d
         /\ srv' = [srv EXCEPT !.pc = "p1_handshake", !.cur = c]
         /\ conn' = [conn EXCEPT ![c].srvFlight = TRUE]
    /\ UNCHANGED <<call, main, cli, srvLog, cliLog>>

\* lines 22-29: wrap_socket returns and the peer's certificate is printed;
\* for a peer without a certificate line 28 raises
Phase1HandshakeOk ==
    /\ srv.pc = "p1_handshake"
    /\ HandshakeCompletes(srv.cur)
    /\ IF cli[srv.cur].cert = NoCert
       THEN /\ srv' = Phase1Returns
            /\ conn' = [conn EXCEPT ![srv.cur].srvHs = "ok", ![srv.cur].srvClosed = TRUE]
            /\ SrvPrints(srv.cur, <<SrvLine("accepted", ""),
                                    SrvLine("verified_client_identity", ""),
                                    SrvLine("error", "")>>)
       ELSE /\ srv' = [srv EXCEPT !.pc = "p1_recv"]
            /\ conn' = [conn EXCEPT ![srv.cur].srvHs = "ok"]
            /\ SrvPrints(srv.cur, <<SrvLine("accepted", ""),
                                    SrvLine("verified_client_identity", "")>>)
    /\ UNCHANGED <<call, main, cli, cliLog>>

\* line 22 raises
Phase1HandshakeFails ==
    /\ srv.pc = "p1_handshake"
    /\ conn[srv.cur].cliFlight # "none"
    /\ ~HandshakeCompletes(srv.cur)
    /\ conn' = [conn EXCEPT ![srv.cur].srvHs = "failed", ![srv.cur].srvClosed = TRUE]
    /\ Phase1Error(srv.cur)
    /\ UNCHANGED <<call, main, cli, cliLog>>

\* lines 31-32
Phase1Recv ==
    /\ srv.pc = "p1_recv"
    /\ conn[srv.cur].c2s # <<>>
    /\ conn' = [conn EXCEPT ![srv.cur].c2s = Tail(@),
                            ![srv.cur].srvRecvd = Append(@, Head(conn[srv.cur].c2s))]
    /\ SrvPrints(srv.cur, <<SrvLine("received", Head(conn[srv.cur].c2s))>>)
    /\ srv' = [srv EXCEPT !.pc = "p1_send"]
    /\ UNCHANGED <<call, main, cli, cliLog>>

\* lines 31-32: the initiator closed without sending, recv returns b''
Phase1RecvEof ==
    /\ srv.pc = "p1_recv"
    /\ conn[srv.cur].c2s = <<>> /\ conn[srv.cur].cliClosed
    /\ SrvPrints(srv.cur, <<SrvLine("received", "")>>)
    /\ srv' = [srv EXCEPT !.pc = "p1_send"]
    /\ UNCHANGED <<call, main, cli, conn, cliLog>>

\* line 31 raises
Phase1RecvFails ==
    /\ srv.pc = "p1_recv"
    /\ conn[srv.cur].c2s = <<>> /\ conn[srv.cur].cliClosed
    /\ conn' = [conn EXCEPT ![srv.cur].srvClosed = TRUE]
    /\ Phase1Error(srv.cur)
    /\ UNCHANGED <<call, main, cli, cliLog>>

\* lines 33-35: the greeting is sent, the connection and the listening socket
\* are closed, run_server returns
Phase1Send ==
    /\ srv.pc = "p1_send"
    /\ conn' = [conn EXCEPT ![srv.cur].srvSent = Append(@, ServerGreeting),
                            ![srv.cur].s2c = IF conn[srv.cur].cliClosed THEN @
                                             ELSE Append(@, ServerGreeting),
                            ![srv.cur].srvClosed = TRUE]
    /\ srv' = Phase1Returns
    /\ UNCHANGED <<call, main, cli, srvLog, cliLog>>

\* line 33 raises
Phase1SendFails ==
    /\ srv.pc = "p1_send"
    /\ conn[srv.cur].cliClosed
    /\ conn' = [conn EXCEPT ![srv.cur].srvClosed = TRUE]
    /\ Phase1Error(srv.cur)
    /\ UNCHANGED <<call, main, cli, cliLog>>

---------------------------------------------------------------------------
(* run_client, lines 197-254, one process per client.  Steps that touch    *)
(* nothing but the process's own state are taken together with the next    *)
(* step that touches the connection.                                       *)

CliLine(line, value) == [line |-> line, value |-> value]

CliPrints(c, lines) == cliLog' = [cliLog EXCEPT ![c] = @ \o lines]

\* lines 253-254 without the handler's print
CliFails_unreported(c, lines) ==
    /\ cli' = [cli EXCEPT ![c].pc = "failed"]
    /\ CliPrints(c, lines)

\* the handler of lines 253-254: the error is printed and run_client returns
CliFails(c, lines) ==
    /\ cli' = [cli EXCEPT ![c].pc = "failed"]
    /\ CliPrints(c, lines \o <<CliLine("error", "")>>)

\* the processes are alike, so they are started in the order of their numbers
MayStart(c) == cli[c].pc = "start" /\ \A d \in Clients : d < c => cli[d].pc # "start"

\* lines 200-209 up to the TCP connection: the process loads its credentials
\* and reaches the listening responder; a process with no certificate is a
\* TLS peer other than the demo's client
CliConnect(c) ==
    /\ MayStart(c)
    /\ srv.listening
    /\ \E cert \in PeerCerts :
         cli' = [cli EXCEPT ![c] = [pc |-> "handshake", cert |-> cert,
                                    bundle |-> Bundle, systemStore |-> SystemStore]]
    /\ conn' = [conn EXCEPT ![c].tcp = "connected"]
    /\ CliPrints(c, <<CliLine("connecting", "")>>)
    /\ UNCHANGED <<call, main, srv, srvLog>>

\* line 209 raises ConnectionRefusedError: nothing listens on the port
CliConnectRefused(c) ==
    /\ MayStart(c)
    /\ ~srv.listening
    /\ CliFails(c, <<CliLine("connecting", "")>>)
    /\ UNCHANGED <<call, main, srv, conn, srvLog>>

\* lines 203-204 raise: a credential file is missing or does not load
CliSetupFails(c) ==
    /\ MayStart(c)
    /\ CliFails(c, <<>>)
    /\ UNCHANGED <<call, main, srv, conn, srvLog>>

\* line 209, the handshake: the responder's certificate verifies and the
\* initiator answers with its own; under TLS 1.3 its handshake is complete
\* then, under TLS 1.2 it waits for the responder's Finished
CliHandshakeVerified(c) ==
    /\ cli[c].pc = "handshake"
    /\ conn[c].srvFlight
    /\ ClientTrustsPeer(srv.cert, cli[c].bundle, cli[c].systemStore)
    /\ conn' = [conn EXCEPT ![c].cliFlight = "sent"]
    /\ cli' = [cli EXCEPT ![c].pc = IF srv.tls13 THEN "established" ELSE "finished"]
    /\ UNCHANGED <<call, main, srv, srvLog, cliLog>>

\* line 209 raises SSLCertVerificationError; run_client returns and its
\* socket is dropped
CliHandshakeFails(c) ==
    /\ cli[c].pc = "handshake"
    /\ conn[c].srvFlight
    /\ ~ClientTrustsPeer(srv.cert, cli[c].bundle, cli[c].systemStore)
    /\ CliFails(c, <<>>)
    /\ conn' = [conn EXCEPT ![c].cliFlight = "aborted", ![c].cliClosed = TRUE]
    /\ UNCHANGED <<call, main, srv, srvLog>>

\* line 209 under TLS 1.2: the responder's Finished arrives
CliFinishedOk(c) ==
    /\ cli[c].pc = "finished"
    /\ conn[c].srvHs = "ok"
    /\ cli' = [cli EXCEPT ![c].pc = "established"]
    /\ UNCHANGED <<call, main, srv, conn, srvLog, cliLog>>

\* line 209 under TLS 1.2 raises: the responder rejected the certificate
CliFinishedFails(c) ==
    /\ cli[c].pc = "finished"
    /\ conn[c].srvHs = "failed"
    /\ CliFails(c, <<>>)
    /\ conn' = [conn EXCEPT ![c].cliClosed = TRUE]
    /\ UNCHANGED <<call, main, srv, srvLog>>

\* what lines 212-219 print
CliPeerLines(c) ==
    LET server_spiffe_id == extract_spiffe_id(PeerCertDict(srv.cert))
    IN  <<CliLine("verified_server_identity", "")>>
        \o (IF Truthy(server_spiffe_id)
            THEN <<CliLine("spiffe_id", server_spiffe_id.value)>> ELSE <<>>)

\* what lines 221-246 print
CliOwnLines(c) ==
    LET server_spiffe_id == extract_spiffe_id(PeerCertDict(srv.cert))
        client_spiffe_id == OwnSpiffeId(cli[c].cert)
    IN  (IF Truthy(client_spiffe_id)
         THEN <<CliLine("client_spiffe_id", client_spiffe_id.value)>> ELSE <<>>)
        \o <<CliLine("handshake_successful", "")>>
        \o (IF Truthy(server_spiffe_id)
            THEN <<CliLine("server_identity", server_spiffe_id.value)>> ELSE <<>>)

\* the responder's end of the session is gone
ResponderGone(c) == conn[c].srvHs = "failed" \/ conn[c].srvClosed

\* lines 212-249: both identities are printed and the greeting is sent; it
\* reaches the responder unless the responder's end is gone
CliSend(c) ==
    /\ cli[c].pc = "established"
    /\ conn' = [conn EXCEPT ![c].cliSent = Append(@, ClientGreeting),
                            ![c].c2s = IF ResponderGone(c) THEN @
                                       ELSE Append(@, ClientGreeting)]
    /\ CliPrints(c, CliPeerLines(c) \o CliOwnLines(c) \o <<CliLine("sending", "")>>)
    /\ cli' = [cli EXCEPT ![c].pc = "recv"]
    /\ UNCHANGED <<call, main, srv, srvLog>>

\* lines 221-227 raise (the cryptography package is missing, the file does
\* not parse) after lines 212-219 have printed: the handler of line 253
\* takes over, nothing is sent, and the connection goes away with the process
CliOwnIdFails(c) ==
    /\ cli[c].pc = "established"
    /\ CliFails(c, CliPeerLines(c))
    /\ conn' = [conn EXCEPT ![c].cliClosed = TRUE]
    /\ UNCHANGED <<call, main, srv, srvLog>>

\* line 249 raises: the responder's end is gone
CliSendFails(c) ==
    /\ cli[c].pc = "established"
    /\ ResponderGone(c)
    /\ CliFails(c, CliPeerLines(c) \o CliOwnLines(c) \o <<CliLine("sending", "")>>)
    /\ conn' = [conn EXCEPT ![c].cliClosed = TRUE]
    /\ UNCHANGED <<call, main, srv, srvLog>>

\* lines 250-252: recv returns the responder's payload, the socket is closed
CliRecv(c) ==
    /\ cli[c].pc = "recv"
    /\ conn[c].s2c # <<>>
    /\ conn' = [conn EXCEPT ![c].s2c = Tail(@),
                            ![c].cliRecvd = Append(@, Head(conn[c].s2c)),
                            ![c].cliClosed = TRUE]
    /\ CliPrints(c, <<CliLine("replied", Head(conn[c].s2c))>>)
    /\ cli' = [cli EXCEPT ![c].pc = "done"]
    /\ UNCHANGED <<call, main, srv, srvLog>>

\* lines 250-252: the responder's end is closed, recv returns b''
CliRecvEof(c) ==
    /\ cli[c].pc = "recv"
    /\ conn[c].s2c = <<>> /\ conn[c].srvClosed
    /\ conn' = [conn EXCEPT ![c].cliClosed = TRUE]
    /\ CliPrints(c, <<CliLine("replied", "")>>)
    /\ cli' = [cli EXCEPT ![c].pc = "done"]
    /\ UNCHANGED <<call, main, srv, srvLog>>

\* line 250 raises: the responder's alert or reset arrives
CliRecvFails(c) ==
    /\ cli[c].pc = "recv"
    /\ conn[c].s2c = <<>>
    /\ ResponderGone(c)
    /\ CliFails(c, <<>>)
    /\ conn' = [conn EXCEPT ![c].cliClosed = TRUE]
    /\ UNCHANGED <<call, main, srv, srvLog>>

---------------------------------------------------------------------------
(* The sessions: one responder and the initiators                          *)

Init == call = NoCall /\ main = MainInit /\ SessionInit

Next ==
    \/ SrvSetup
    \/ SrvSetupFails
    \/ SrvAccept
    \/ SrvHandshakeOk
    \/ SrvHandshakeFails
    \/ SrvOwnIdFails
    \/ SrvRecv
    \/ SrvRecvEof
    \/ SrvRecvFails
    \/ SrvSend
    \/ SrvSendFails
    \/ \E c \in Clients : CliConnect(c)
    \/ \E c \in Clients : CliConnectRefused(c)
    \/ \E c \in Clients : CliSetupFails(c)
    \/ \E c \in Clients : CliHandshakeVerified(c)
    \/ \E c \in Clients : CliHandshakeFails(c)
    \/ \E c \in Clients : CliFinishedOk(c)
    \/ \E c \in Clients : CliFinishedFails(c)
    \/ \E c \in Clients : CliSend(c)
    \/ \E c \in Clients : CliOwnIdFails(c)
    \/ \E c \in Clients : CliSendFails(c)
    \/ \E c \in Clients : CliRecv(c)
    \/ \E c \in Clients : CliRecvEof(c)
    \/ \E c \in Clients : CliRecvFails(c)

Spec == Init /\ [][Next]_vars

\* the responder is phase_4's run_server or phase_1's; the initiators are
\* the same processes
NextPhase1 ==
    \/ Phase1Setup
    \/ Phase1SetupFails
    \/ Phase1Accept
    \/ Phase1HandshakeOk
    \/ Phase1HandshakeFails
    \/ Phase1Recv
    \/ Phase1RecvEof
    \/ Phase1RecvFails
    \/ Phase1Send
    \/ Phase1SendFails

NextResponders == Next \/ NextPhase1

SpecResponders == Init /\ [][NextResponders]_vars

---------------------------------------------------------------------------
(* fetch_svids and the __main__ block of phase_4's mtls_demo.py            *)

\* lines 9-30: the query's output is searched for 'tpm'; every exception
\* (the query times out or cannot be started) gives a warning and False
check_tpm_attestation(run) ==
    IF run.kind = "exit"
    THEN [returned |-> Contains(Lower(run.stdout), <<"t", "p", "m">>)
                           \/ Contains(Lower(run.stderr), <<"t", "p", "m">>),
          lines |-> <<>>]
    ELSE [returned |-> FALSE, lines |-> <<"tpm_warning">>]

\* what lines 104-108 print
TpmStatusLines(tpm_active) ==
    IF tpm_active THEN <<"tpm_attestation_active">> ELSE <<"tpm_attestation_not_detected">>

\* what lines 57-95 print for a fetch command that exited with an error
FetchErrorLines(run) ==
    LET stderr_lower == Lower(run.stderr)
    IN  <<"error_fetching_svid">>
        \o (IF Contains(stderr_lower, <<"p", "c", "r">>) \/ Contains(stderr_lower, <<"m", "i", "s", "m", "a", "t", "c", "h">>)
                \/ Contains(stderr_lower, <<"p", "e", "r", "m", "i", "s", "s", "i", "o", "n", " ", "d", "e", "n", "i", "e", "d">>)
            THEN <<"pcr_mismatch_detected">> ELSE <<"error_output">>)

\* the try block with the attestation queried before the return code is read
fetch_svids_try_attests_first(env) ==
    LET tpm_active == check_tpm_attestation(env.tpm)
    IN  IF env.fetch.kind = "timeout" THEN FetchOutcome("TimeoutExpired", FALSE, TRUE, tpm_active.lines)
        ELSE IF env.fetch.kind # "exit" THEN FetchOutcome("OSError", FALSE, TRUE, tpm_active.lines)
        ELSE IF env.fetch.returncode # 0
        THEN FetchOutcome("", FALSE, TRUE,
                          tpm_active.lines \o TpmStatusLines(tpm_active.returned)
                              \o FetchErrorLines(env.fetch))
        ELSE FetchOutcome("", TRUE, TRUE,
                          <<"stdout">> \o tpm_active.lines
                              \o TpmStatusLines(tpm_active.returned))

\* lines 47-110, the body of the try block: subprocess.run raises
\* TimeoutExpired, or OSError when the command cannot be started; a non-zero
\* return code returns False at line 97; check_tpm_attestation is called at
\* line 102
fetch_svids_try(env) ==
    IF env.fetch.kind = "timeout" THEN FetchOutcome("TimeoutExpired", FALSE, FALSE, <<>>)
    ELSE IF env.fetch.kind # "exit" THEN FetchOutcome("OSError", FALSE, FALSE, <<>>)
    ELSE IF env.fetch.returncode # 0
    THEN FetchOutcome("", FALSE, FALSE, FetchErrorLines(env.fetch))
    ELSE LET tpm_active == check_tpm_attestation(env.tpm)
         IN  FetchOutcome("", TRUE, TRUE,
                          <<"stdout">> \o tpm_active.lines
                              \o TpmStatusLines(tpm_active.returned))

\* lines 32-117: the two existence tests, the try block, and the handlers of
\* lines 112-117, which print and return False
fetch_svids(env) ==
    IF ~env.binary
    THEN FetchOutcome("", FALSE, FALSE, <<"fetching", "binary_not_found">>)
    ELSE IF ~env.socket
    THEN FetchOutcome("", FALSE, FALSE, <<"fetching", "socket_not_found">>)
    ELSE LET tried == fetch_svids_try(env)
         IN  IF tried.raised = "TimeoutExpired"
             THEN FetchOutcome("", FALSE, tried.tpm_checked,
                               <<"fetching">> \o tried.lines \o <<"timeout">>)
             ELSE IF tried.raised # ""
             THEN FetchOutcome("", FALSE, tried.tpm_checked,
                               <<"fetching">> \o tried.lines \o <<"error_during_fetch">>)
             ELSE FetchOutcome("", tried.returned, tried.tpm_checked,
                               <<"fetching">> \o tried.lines)

\* the runs of the fetch command: success, an error exit with one of several
\* messages, a timeout, a failure to start
FetchRuns ==
    {CmdRun("exit", 0, <<"S", "V", "I", "D">>, <<>>)}
        \cup {CmdRun("exit", 1, <<>>, stderr) :
                stderr \in {<<>>, <<"P", "C", "R", " ", "M", "i", "s", "m", "a", "t", "c", "h">>, <<"P", "e", "r", "m", "i", "s", "s", "i", "o", "n", " ", "d", "e", "n", "i", "e", "d">>, <<"n", "o", " ", "i", "d", "e", "n", "t", "i", "t", "y">>}}
        \cup {CmdRun("timeout", 0, <<>>, <<>>), CmdRun("oserror", 0, <<>>, <<>>)}

\* the runs of check_tpm_attestation's query
TpmRuns ==
    {CmdRun("exit", 0, <<"a", "g", "e", "n", "t", "/", "T", "P", "M", "/", "a", "b">>, <<>>), CmdRun("exit", 1, <<>>, <<"t", "p", "m">>),
     CmdRun("exit", 0, <<"x", "5", "0", "9", "p", "o", "p">>, <<>>), CmdRun("timeout", 0, <<>>, <<>>)}

Environments ==
    [binary : BOOLEAN, socket : BOOLEAN, fetch : FetchRuns, tpm : TpmRuns]

\* sys.argv[1:]
Argvs == {<<>>, <<"server">>, <<"client">>}

\* the three credential files
AllFiles == {"svid.0.pem", "svid.0.key", "bundle.0.pem"}

\* line 273 looking for the certificate alone
FilesPresent_certificate_only(files) == "svid.0.pem" \in files

\* line 273
FilesPresent(files) ==
    "svid.0.pem" \in files /\ "svid.0.key" \in files /\ "bundle.0.pem" \in files

\* lines 282-290: which of the two functions the process calls
Dispatch(argv) ==
    IF Len(argv) > 0 /\ argv[1] = "server" THEN {"run_server"}
    ELSE IF Len(argv) > 0 /\ argv[1] = "client" THEN {"run_client"}
    ELSE {"run_server", "run_client"}

\* the process's own run_client is client 1
MainClient == 1

\* lines 258-270: the banner, fetch_svids, and sys.exit(1) when it returned
\* False; an exception leaving fetch_svids would end the process with a
\* traceback and status 1
MainFetch ==
    /\ main.pc = "start"
    /\ \E env \in Environments, argv \in Argvs :
         LET fetched == fetch_svids(env)
         IN  main' =
                IF fetched.raised # ""
                THEN [main EXCEPT !.pc = "exited", !.env = env, !.fetch = fetched,
                                  !.argv = argv, !.sys_exit = <<1>>,
                                  !.lines = <<"banner">> \o fetched.lines \o <<"traceback">>]
                ELSE IF ~fetched.returned
                THEN [main EXCEPT !.pc = "exited", !.env = env, !.fetch = fetched,
                                  !.argv = argv, !.sys_exit = <<1>>,
                                  !.lines = <<"banner">> \o fetched.lines
                                                \o <<"failed_to_fetch_svids">>]
                ELSE [main EXCEPT !.pc = "fetched", !.env = env, !.fetch = fetched,
                                  !.argv = argv,
                                  !.lines = <<"banner">> \o fetched.lines
                                                \o <<"successfully_fetched_svids">>]
    /\ UNCHANGED <<call, sessionVars>>

\* lines 273-290: the files the fetch left in the directory are looked for;
\* without all three the process exits with status 1, with them it calls
\* run_server, run_client, or starts run_server as a thread and calls run_client
MainCheckFiles ==
    /\ main.pc = "fetched"
    /\ \E files \in SUBSET AllFiles :
         main' =
            IF FilesPresent(files)
            THEN [main EXCEPT !.pc = "running", !.files = files,
                              !.called = Dispatch(main.argv),
                              !.lines = @ \o <<"starting_mtls_demo">>]
            ELSE [main EXCEPT !.pc = "exited", !.files = files, !.sys_exit = <<1>>,
                              !.lines = @ \o <<"svid_files_not_found">>]
    /\ UNCHANGED <<call, sessionVars>>

\* run_server was called and is running
ServerRuns == main.pc = "running" /\ "run_server" \in main.called

\* run_client was called and is running
ClientRuns == main.pc = "running" /\ "run_client" \in main.called

\* run_client returned, from line 252 or from its handler
ClientReturned == cli[MainClient].pc \in {"done", "failed"}

\* lines 283-295: the functions the process called have returned (with a
\* thread started: run_client returned and t.join() returned), and the
\* completion banner is printed
MainCompletes ==
    /\ main.pc = "running"
    /\ "run_server" \in main.called => srv.pc = "done"
    /\ "run_client" \in main.called => ClientReturned
    /\ main' = [main EXCEPT !.pc = "completed",
                            !.lines = @ \o <<"demo_completed_successfully">>]
    /\ UNCHANGED <<call, sessionVars>>

\* the steps of run_server, in the main thread or in the thread of line 288
ServerThread ==
    /\ ServerRuns
    /\ \/ SrvSetup \/ SrvSetupFails \/ SrvAccept \/ SrvHandshakeOk \/ SrvHandshakeFails
       \/ SrvOwnIdFails \/ SrvRecv \/ SrvRecvEof \/ SrvRecvFails \/ SrvSend \/ SrvSendFails

\* the steps of the main thread
MainThread ==
    \/ MainFetch
    \/ MainCheckFiles
    \/ MainCompletes
    \/ /\ ClientRuns
       /\ \/ CliConnect(MainClient) \/ CliConnectRefused(MainClient)
          \/ CliSetupFails(MainClient) \/ CliHandshakeVerified(MainClient)
          \/ CliHandshakeFails(MainClient) \/ CliFinishedOk(MainClient)
          \/ CliFinishedFails(MainClient) \/ CliSend(MainClient)
          \/ CliOwnIdFails(MainClient) \/ CliSendFails(MainClient)
          \/ CliRecv(MainClient) \/ CliRecvEof(MainClient) \/ CliRecvFails(MainClient)

\* one process: the main thread and, when it was started, the thread of
\* run_server
NextMain ==
    \/ MainFetch
    \/ MainCheckFiles
    \/ MainCompletes
    \/ ServerRuns /\ SrvSetup
    \/ ServerRuns /\ SrvSetupFails
    \/ ServerRuns /\ SrvAccept
    \/ ServerRuns /\ SrvHandshakeOk
    \/ ServerRuns /\ SrvHandshakeFails
    \/ ServerRuns /\ SrvOwnIdFails
    \/ ServerRuns /\ SrvRecv
    \/ ServerRuns /\ SrvRecvEof
    \/ ServerRuns /\ SrvRecvFails
    \/ ServerRuns /\ SrvSend
    \/ ServerRuns /\ SrvSendFails
    \/ ClientRuns /\ CliConnect(MainClient)
    \/ ClientRuns /\ CliConnectRefused(MainClient)
    \/ ClientRuns /\ CliSetupFails(MainClient)
    \/ ClientRuns /\ CliHandshakeVerified(MainClient)
    \/ ClientRuns /\ CliHandshakeFails(MainClient)
    \/ ClientRuns /\ CliFinishedOk(MainClient)
    \/ ClientRuns /\ CliFinishedFails(MainClient)
    \/ ClientRuns /\ CliSend(MainClient)
    \/ ClientRuns /\ CliOwnIdFails(MainClient)
    \/ ClientRuns /\ CliSendFails(MainClient)
    \/ ClientRuns /\ CliRecv(MainClient)
    \/ ClientRuns /\ CliRecvEof(MainClient)
    \/ ClientRuns /\ CliRecvFails(MainClient)

SpecMain == Init /\ [][NextMain]_vars

\* both threads are scheduled: a step of a thread that stays possible is
\* taken in the end
SpecMainFair == SpecMain /\ WF_vars(MainThread) /\ WF_vars(ServerThread)

---------------------------------------------------------------------------
(* Calls of the policy helpers: a caller makes one call, reads its result   *)
(* and returns                                                             *)

CallValidateSelector ==
    /\ call = NoCall
    /\ UNCHANGED <<main, sessionVars>>
    /\ \E pre \in SelectorPrefixes, idx \in SelectorIndexTexts, sep \in SelectorSeparators,
       pair \in SelectorDigestChars, n \in SelectorDigestLengths, tail \in SelectorTails :
        LET selector == pre \o idx \o sep \o PatternDigest(pair, n) \o tail
        IN  call' = [fn |-> "validate_pcr_selector_format",
                     selector |-> selector,
                     result |-> validate_pcr_selector_format(selector)]

CallValidateAgentId ==
    /\ call = NoCall
    /\ UNCHANGED <<main, sessionVars>>
    /\ \E scheme \in IdSchemes, td \in IdTrustDomains, path \in IdPaths,
       suffix \in IdSuffixes, tail \in IdTails :
        LET spiffe_id == scheme \o td \o path \o suffix \o tail
        IN  call' = [fn |-> "validate_tpm_agent_spiffe_id_format",
                     spiffe_id |-> spiffe_id,
                     result |-> validate_tpm_agent_spiffe_id_format(spiffe_id)]

CallAkEkValidation ==
    /\ call = NoCall
    /\ UNCHANGED <<main, sessionVars>>
    /\ \E a \in BOOLEAN, b \in BOOLEAN, c \in BOOLEAN :
        call' = [fn |-> "simulate_ak_ek_validation",
                 ak_cert_valid |-> a, ek_pub_key_valid |-> b, ak_signed_by_ek |-> c,
                 result |-> simulate_ak_ek_validation(a, b, c)]

CallPcrMatchCheck ==
    /\ call = NoCall
    /\ UNCHANGED <<main, sessionVars>>
    /\ \E e \in Digests, o \in Digests :
        call' = [fn |-> "simulate_pcr_match_check",
                 registered_pcr_hash |-> e, current_pcr_hash |-> o,
                 result |-> simulate_pcr_match_check(e, o)]

CallPcrMismatchCheck ==
    /\ call = NoCall
    /\ UNCHANGED <<main, sessionVars>>
    /\ \E e \in Digests, o \in Digests :
        call' = [fn |-> "simulate_pcr_mismatch_check",
                 registered_pcr_hash |-> e, current_pcr_hash |-> o,
                 result |-> simulate_pcr_mismatch_check(e, o)]

CallStatusReport ==
    /\ call = NoCall
    /\ UNCHANGED <<main, sessionVars>>
    /\ \E p \in BOOLEAN, l \in BOOLEAN, d \in BOOLEAN :
        call' = [fn |-> "simulate_verification_status_report",
                 tpm_in_parent_id |-> p, tpm_in_logs |-> l, tpm_device_accessible |-> d,
                 result |-> simulate_verification_status_report(p, l, d)]

CallExtractSpiffeId ==
    /\ call = NoCall
    /\ UNCHANGED <<main, sessionVars>>
    /\ \E cert \in CertDicts \cup NonDictValues :
        call' = [fn |-> "extract_spiffe_id",
                 cert |-> cert,
                 result |-> extract_spiffe_id(cert)]

CallAgentParentIdCheck ==
    /\ call = NoCall
    /\ UNCHANGED <<main, sessionVars>>
    /\ \E scheme \in ParentIdSchemes, td \in ParentIdTrustDomains, path \in ParentIdPaths :
        LET agent_spiffe_id == scheme \o td \o path
        IN  call' = [fn |-> "simulate_agent_parent_id_check",
                     agent_spiffe_id |-> agent_spiffe_id,
                     result |-> simulate_agent_parent_id_check(agent_spiffe_id)]

CallLogCheck ==
    /\ call = NoCall
    /\ UNCHANGED <<main, sessionVars>>
    /\ \E log_content \in Logs :
        call' = [fn |-> "simulate_log_check_for_tpm_initialization",
                 log_content |-> log_content,
                 result |-> simulate_log_check_for_tpm_initialization(log_content)]

Return ==
    /\ call # NoCall
    /\ call' = NoCall
    /\ UNCHANGED <<main, sessionVars>>

InitPure == call = NoCall /\ main = MainInit /\ SessionInit

NextPure ==
    \/ CallValidateSelector
    \/ CallValidateAgentId
    \/ CallAkEkValidation
    \/ CallPcrMatchCheck
    \/ CallPcrMismatchCheck
    \/ CallStatusReport
    \/ CallExtractSpiffeId
    \/ CallAgentParentIdCheck
    \/ CallLogCheck
    \/ Return

SpecPure == InitPure /\ [][NextPure]_vars

---------------------------------------------------------------------------
(* Claims about the policy helpers (checked under SpecPure)                *)

IsMismatchCall == call.fn = "simulate_pcr_mismatch_check"
IsMatchCall == call.fn = "simulate_pcr_match_check"

\* C3: digests that differ after case normalization, in content or in length
\* (empty against non-empty too), are denied by simulate_pcr_mismatch_check,
\* and the diagnostic holds both normalized digests and the word "mismatch".
C3_MismatchDeniesWithDiagnostic ==
    (IsMismatchCall /\ Lower(call.registered_pcr_hash) # Lower(call.current_pcr_hash))
        => /\ call.result.denied = TRUE
           /\ Contains(call.result.message, Lower(call.registered_pcr_hash))
           /\ Contains(call.result.message, Lower(call.current_pcr_hash))
           /\ Contains(Lower(call.result.message), <<"m", "i", "s", "m", "a", "t", "c", "h">>)

\* the empty registered digest was compared with a non-empty observed one
\* and denied
C3_Witness ==
    /\ IsMismatchCall
    /\ call.registered_pcr_hash = <<>>
    /\ call.current_pcr_hash = <<"A", "b">>
    /\ call.result.denied = TRUE

Decimal(i) ==
    IF i < 10 THEN <<DigitChars[i + 1]>>
    ELSE <<DigitChars[(i \div 10) + 1], DigitChars[(i % 10) + 1]>>

\* the whole of s is 'tpm:pcr:' <index 0..23> ':' <hex digest of a valid length>
SelectorWellFormed(s) ==
    \E i \in 0..23 :
        LET head == <<"t", "p", "m", ":", "p", "c", "r", ":">> \o Decimal(i) \o <<":">>
        IN  /\ StartsWith(s, head)
            /\ (Len(s) - Len(head)) \in valid_hash_lengths
            /\ \A k \in (Len(head) + 1)..Len(s) : IsHex(s[k])

\* C5: validate_pcr_selector_format accepts s if and only if the whole of s is
\* 'tpm:pcr:', an index in 0..23 without a leading zero, ':', and a hex digest
\* whose length is one of 32, 40, 48, 64, 96, 128, with nothing after it.
C5_SelectorAcceptedIffWellFormed ==
    call.fn = "validate_pcr_selector_format"
        => (call.result <=> SelectorWellFormed(call.selector))

\* s without the one newline that may end it
ChompNewline(s) ==
    IF Len(s) > 0 /\ s[Len(s)] = "\n" THEN SubSeq(s, 1, Len(s) - 1) ELSE s

\* what the code accepts: a well-formed selector, or one followed by one newline
C5_SelectorAcceptedUpToNewline ==
    call.fn = "validate_pcr_selector_format"
        => (call.result <=> SelectorWellFormed(ChompNewline(call.selector)))

\* the whole of u is 'spiffe://' <trust domain> '/spire/agent/tpm/' <hex suffix>
AgentIdWellFormed(u) ==
    \E n \in 1..Len(u), m \in 1..Len(u) :
        LET head == <<"s", "p", "i", "f", "f", "e", ":", "/", "/">>
            mid == <<"/", "s", "p", "i", "r", "e", "/", "a", "g", "e", "n", "t", "/", "t", "p", "m", "/">>
        IN  /\ Len(u) = Len(head) + n + Len(mid) + m
            /\ StartsWith(u, head)
            /\ \A k \in (Len(head) + 1)..(Len(head) + n) : IsTrustDomainChar(u[k])
            /\ SubSeq(u, Len(head) + n + 1, Len(head) + n + Len(mid)) = mid
            /\ \A k \in (Len(head) + n + Len(mid) + 1)..Len(u) : IsHex(u[k])

\* C6: validate_tpm_agent_spiffe_id_format is true if and only if u is exactly
\* 'spiffe://', a non-empty trust domain of letters, digits, dots and hyphens,
\* '/spire/agent/tpm/' and one or more hex characters, with nothing after them.
C6_AgentIdAcceptedIffWellFormed ==
    call.fn = "validate_tpm_agent_spiffe_id_format"
        => (call.result <=> AgentIdWellFormed(call.spiffe_id))

\* what the code accepts: a well-formed identity, or one followed by one newline
C6_AgentIdAcceptedUpToNewline ==
    call.fn = "validate_tpm_agent_spiffe_id_format"
        => (call.result <=> AgentIdWellFormed(ChompNewline(call.spiffe_id)))

\* a certificate summary: every subjectAltName entry is a (type, value) pair
IsCertSummary(cert) ==
    /\ IsDict(cert)
    /\ "subjectAltName" \in DOMAIN cert
        => \A i \in 1..Len(cert["subjectAltName"]) : Len(cert["subjectAltName"][i]) = 2

\* the positions of the URI-typed entries whose value starts with 'spiffe://'
SpiffeUriPositions(cert) ==
    IF "subjectAltName" \in DOMAIN cert
    THEN {i \in 1..Len(cert["subjectAltName"]) :
            /\ cert["subjectAltName"][i][1] = "URI"
            /\ StartsWith(cert["subjectAltName"][i][2], <<"s", "p", "i", "f", "f", "e", ":", "/", "/">>)}
    ELSE {}

\* C7: for a certificate summary, extract_spiffe_id returns the value of the
\* first subjectAltName entry, in list order, that has type 'URI' and a value
\* starting with 'spiffe://', and None when there is none; an entry of another
\* type is never returned.
C7_ExtractReturnsFirstSpiffeUri ==
    (call.fn = "extract_spiffe_id" /\ IsCertSummary(call.cert))
        => LET at == SpiffeUriPositions(call.cert)
           IN  IF at = {} THEN call.result = None
               ELSE call.result =
                        Str(call.cert["subjectAltName"]
                                [CHOOSE i \in at : \A j \in at : i <= j][2])

\* a DNS entry whose text starts with 'spiffe://' comes first and is passed over
C7_Witness ==
    /\ call.fn = "extract_spiffe_id"
    /\ call.cert = CertWithSan(<<<<"DNS", <<"s", "p", "i", "f", "f", "e", ":", "/", "/", "b">>>>, <<"URI", <<"s", "p", "i", "f", "f", "e", ":", "/", "/", "a", "/", "w">>>>>>)
    /\ call.result = Str(<<"s", "p", "i", "f", "f", "e", ":", "/", "/", "a", "/", "w">>)

\* C8: simulate_ak_ek_validation is true exactly when akCertValid,
\* ekPublicKeyValid and akSignedByEk are all true.
C8_CredentialIsConjunction ==
    call.fn = "simulate_ak_ek_validation"
        => (call.result = TRUE <=>
                (call.ak_cert_valid = TRUE /\ call.ek_pub_key_valid = TRUE
                    /\ call.ak_signed_by_ek = TRUE))

C8_Witness ==
    /\ call.fn = "simulate_ak_ek_validation"
    /\ call.ak_cert_valid /\ call.ek_pub_key_valid /\ ~call.ak_signed_by_ek
    /\ call.result = FALSE

\* C10: simulate_verification_status_report reports Active if and only if
\* identityFormatOk (tpm_in_parent_id) is true, whatever the other two
\* indicators are: the flag and the INACTIVE token of the message.
C10_ActiveIffIdentityFormatOk ==
    call.fn = "simulate_verification_status_report"
        => /\ call.result.is_active = call.tpm_in_parent_id
           /\ Contains(call.result.status_message, <<"I", "N", "A", "C", "T", "I", "V", "E">>) <=> ~call.tpm_in_parent_id

\* the identity format is wrong while the log and the device indicators are good
C10_Witness ==
    /\ call.fn = "simulate_verification_status_report"
    /\ ~call.tpm_in_parent_id /\ call.tpm_in_logs /\ call.tpm_device_accessible
    /\ call.result.is_active = FALSE

\* the tokens of a message: its maximal runs of characters other than spaces
\* (as a mere substring, ACTIVE occurs inside INACTIVE)
Tokens(s) ==
    {SubSeq(s, i, j) : <<i, j>> \in
        {p \in (1..Len(s)) \X (1..Len(s)) :
            /\ p[1] <= p[2]
            /\ \A k \in p[1]..p[2] : s[k] # " "
            /\ (p[1] = 1 \/ s[p[1] - 1] = " ")
            /\ (p[2] = Len(s) \/ s[p[2] + 1] = " ")}}

StatusTokens == {<<"A", "C", "T", "I", "V", "E">>, <<"I", "N", "A", "C", "T", "I", "V", "E">>}

\* C11: the explanation string of simulate_verification_status_report is
\* non-empty and holds exactly one of the two upper-case tokens ACTIVE and
\* INACTIVE, never both.
C11_ExactlyOneStatusToken ==
    call.fn = "simulate_verification_status_report"
        => /\ Len(call.result.status_message) > 0
           /\ Cardinality(Tokens(call.result.status_message) \cap StatusTokens) = 1

\* a report of an inactive attestation: INACTIVE is a token of it, ACTIVE is not
C11_Witness ==
    /\ call.fn = "simulate_verification_status_report"
    /\ ~call.tpm_in_parent_id /\ ~call.tpm_in_logs /\ ~call.tpm_device_accessible
    /\ <<"I", "N", "A", "C", "T", "I", "V", "E">> \in Tokens(call.result.status_message)
    /\ <<"A", "C", "T", "I", "V", "E">> \notin Tokens(call.result.status_message)

\* the identity is a 'spiffe://' one (the scheme in either case)
IsSpiffeIdentity(id) == StartsWith(Lower(id), <<"s", "p", "i", "f", "f", "e", ":", "/", "/">>)

\* the path component of a 'spiffe://' identity: what follows the first '/'
\* after the trust domain, empty when the identity ends with the trust domain
IdentityPath(id) ==
    LET rest == SubSeq(id, 10, Len(id))
        at == {i \in 1..Len(rest) : rest[i] = "/"}
    IN  IF at = {} THEN <<>>
        ELSE SubSeq(rest, (CHOOSE i \in at : \A j \in at : i <= j) + 1, Len(rest))

\* C23: simulate_agent_parent_id_check reports TPM attestation for a
\* 'spiffe://' identity only if 'tpm' occurs, in either case, in the path
\* that follows the trust domain; 'tpm' in the trust domain alone is never
\* reported as TPM attestation.
C23_TpmCountsOnlyInPath ==
    (call.fn = "simulate_agent_parent_id_check" /\ IsSpiffeIdentity(call.agent_spiffe_id))
        => (call.result = TRUE
                => Contains(Lower(IdentityPath(call.agent_spiffe_id)), <<"t", "p", "m">>))

\* p occurs in s, letters compared without regard to case
ContainsIgnoringCase(s, p) ==
    \E i \in 1..(Len(s) - Len(p) + 1) : Lower(SubSeq(s, i, i + Len(p) - 1)) = Lower(p)

\* C24: simulate_log_check_for_tpm_initialization returns true if and only if
\* the log, compared case-insensitively, contains 'tpm' and at least one of
\* the initialization keywords anywhere in the text, on the same line or on
\* another; a log without 'tpm' gives false.
C24_LogEvidenceIffTpmAndKeyword ==
    call.fn = "simulate_log_check_for_tpm_initialization"
        => /\ call.result = TRUE <=>
                /\ ContainsIgnoringCase(call.log_content, <<"t", "p", "m">>)
                /\ \E k \in 1..Len(init_keywords) :
                        ContainsIgnoringCase(call.log_content, init_keywords[k])
           /\ ~ContainsIgnoringCase(call.log_content, <<"t", "p", "m">>) => call.result = FALSE

\* 'TPM' on one line and a keyword, in another case, on the next
C24_Witness ==
    /\ call.fn = "simulate_log_check_for_tpm_initialization"
    /\ call.log_content = <<"T", "P", "M", "\n", "A", "g", "e", "n", "t", " ", "S", "t", "a", "r", "t", "e", "d">>
    /\ call.result = TRUE

\* C29: extract_spiffe_id is total: for a certificate summary without a
\* subjectAltName key, an empty one, one with a malformed subjectAltName
\* entry, and for a value that is no dictionary, it returns a string or None
\* and never raises.
C29_ExtractSpiffeIdIsTotal ==
    call.fn = "extract_spiffe_id"
        => /\ call.result # Raised
           /\ call.result.type \in {"str", "NoneType"}

\* an entry that is not a pair, after which a SPIFFE URI would follow; and
\* None in place of the dictionary
C29_Witness ==
    /\ call.fn = "extract_spiffe_id"
    /\ \/ call.cert = CertWithSan(<<<<"URI">>, <<"URI", <<"s", "p", "i", "f", "f", "e", ":", "/", "/", "a", "/", "w">>>>>>)
       \/ call.cert = PyInt(<<"5">>)
    /\ call.result = None

\* C30: for all digest pairs, the diagnostic of simulate_pcr_mismatch_check
\* is empty exactly when denied is false, and the two matcher forms agree:
\* simulate_pcr_match_check(e, o) is true exactly when
\* simulate_pcr_mismatch_check(e, o) returns denied = false.
C30_MatcherFormsAgree ==
    /\ IsMismatchCall
        => /\ call.result.message = <<>> <=> call.result.denied = FALSE
           /\ call.result.denied = FALSE <=>
                simulate_pcr_match_check(call.registered_pcr_hash, call.current_pcr_hash)
    /\ IsMatchCall
        => (call.result = TRUE <=>
                simulate_pcr_mismatch_check(call.registered_pcr_hash,
                                            call.current_pcr_hash).denied = FALSE)

\* a digest against a longer one that begins with it: denied, with a
\* diagnostic, and the boolean form says no match
C30_Witness ==
    /\ IsMismatchCall
    /\ call.registered_pcr_hash = <<"a">>
    /\ call.current_pcr_hash = <<"A", "b">>
    /\ call.result.denied = TRUE
    /\ call.result.message # <<>>
    /\ ~simulate_pcr_match_check(call.registered_pcr_hash, call.current_pcr_hash)

---------------------------------------------------------------------------
(* Claims about the sessions of run_server and run_client                  *)

\* run_server accepted the connection of c: its handshake was begun
Accepted(c) == conn[c].srvFlight

\* the certificate c presents does not verify against the responder's
\* bundle, or c presents none
PeerFailsVerification(c) ==
    cli[c].cert = NoCert \/ cli[c].cert.issuer \notin srv.bundle

SrvLogged(c, line) ==
    \E i \in 1..Len(srvLog[c]) : srvLog[c][i].line = line

CliLogged(c, line) ==
    \E i \in 1..Len(cliLog[c]) : cliLog[c][i].line = line

\* C1: for every accepted connection whose TLS handshake fails or whose peer
\* certificate does not verify (a peer with no certificate included),
\* run_server prints no 'VERIFIED CLIENT IDENTITY' line for the connection
\* and neither receives nor sends application payload on it.
C1_FailedHandshakeNoIdentityNoPayload ==
    \A c \in Clients :
        (Accepted(c) /\ (conn[c].srvHs = "failed" \/ PeerFailsVerification(c)))
            => /\ ~SrvLogged(c, "verified_client_identity")
               /\ ~SrvLogged(c, "received")
               /\ conn[c].srvRecvd = <<>>
               /\ conn[c].srvSent = <<>>

\* a peer without a certificate was accepted and its handshake failed in
\* run_server, after the peer, its own handshake complete, sent a payload
C1_Witness ==
    \E c \in Clients :
        /\ Accepted(c)
        /\ cli[c].cert = NoCert
        /\ conn[c].srvHs = "failed"
        /\ conn[c].cliSent # <<>>
        /\ SrvLogged(c, "connection_error")

\* run_client got past connect: it printed the server identity or sent its
\* greeting
PastConnect(c) ==
    \/ cli[c].pc \in {"established", "recv", "done"}
    \/ CliLogged(c, "verified_server_identity")
    \/ conn[c].cliSent # <<>>

\* C2: run_client gets past connect, prints the server identity and sends
\* its greeting only if the responder's certificate was issued by an
\* authority of bundle.0.pem.
C2_EstablishedOnlyIfIssuerInBundle ==
    \A c \in Clients :
        PastConnect(c) => srv.cert # NoCert /\ srv.cert.issuer \in cli[c].bundle

\* both sides printed the identity of their verified peer
EstablishedOnBothSides(c) ==
    SrvLogged(c, "verified_client_identity") /\ CliLogged(c, "verified_server_identity")

\* C12: once the handshake has verified the peer, reading the identities
\* never fails the session: each side that printed its peer's identity goes
\* on to print the handshake banner, from where the greeting is exchanged.
C12_IdentityExtractionNeverFailsSession ==
    \A c \in Clients :
        /\ SrvLogged(c, "verified_client_identity") => SrvLogged(c, "handshake_successful")
        /\ CliLogged(c, "verified_server_identity") => CliLogged(c, "handshake_successful")

\* the peer identity a side printed after its VERIFIED ... IDENTITY line:
\* the value of its 'SPIFFE ID' line, None when it printed none
PeerIdLogged(log) ==
    LET at == {i \in 1..Len(log) : log[i].line = "spiffe_id"}
    IN  IF at = {} THEN None
        ELSE Str(log[CHOOSE i \in at : \A j \in at : i <= j].value)

\* C13: in a session established on both sides, the peer identity run_server
\* prints is the identity of the initiator's own certificate, and the peer
\* identity run_client prints is the identity of the responder's own
\* certificate.
C13_LoggedPeerIdentityIsPeersOwn ==
    \A c \in Clients :
        EstablishedOnBothSides(c)
            => /\ PeerIdLogged(srvLog[c]) = OwnSpiffeId(cli[c].cert)
               /\ PeerIdLogged(cliLog[c]) = OwnSpiffeId(srv.cert)

\* an initiator with an identity met a responder whose certificate has none:
\* run_server printed the initiator's identity, run_client printed no identity
C13_Witness ==
    \E c \in Clients :
        /\ EstablishedOnBothSides(c)
        /\ cli[c].cert = Cert("spire", UriSan)
        /\ srv.cert = Cert("spire", DnsSan)
        /\ PeerIdLogged(srvLog[c]) = Str(<<"s", "p", "i", "f", "f", "e", ":", "/", "/", "a", "/", "w">>)
        /\ PeerIdLogged(cliLog[c]) = None

\* C14: in a session established on both sides, what run_server's recv
\* returns is the initiator's greeting, what run_client's recv returns is the
\* responder's greeting, and run_server sends only after it has received the
\* initiator's greeting.
C14_GreetingsExchangedVerbatimInOrder ==
    \A c \in Clients :
        EstablishedOnBothSides(c)
            => /\ SrvLogged(c, "received") => conn[c].srvRecvd = <<ClientGreeting>>
               /\ CliLogged(c, "replied") => conn[c].cliRecvd = <<ServerGreeting>>
               /\ conn[c].srvSent # <<>> => conn[c].srvRecvd = <<ClientGreeting>>

\* the session of c is over in run_server
SrvSessionOver(c) == Accepted(c) /\ srv.cur # c

LastLine(log) == log[Len(log)].line

\* C15: no transport failure leaves run_server or run_client otherwise than
\* through a handler that prints it: a failed bind ends run_server with its
\* error printed, a failed handshake and a failed read or write end the
\* session with 'Connection error' printed (a session that is over either
\* sent its greeting or printed the error), and run_client ends a failure
\* with its error printed.
C15_FailuresAreCaughtAndLogged ==
    /\ srv.pc = "done" => (~srv.listening /\ LastLine(srvLog[0]) = "error")
    /\ \A c \in Clients :
        /\ conn[c].srvHs = "failed" => HadConnectionError(c)
        /\ SrvSessionOver(c) => (HadConnectionError(c) <=> conn[c].srvSent = <<>>)
        /\ cli[c].pc = "failed" => LastLine(cliLog[c]) = "error"
        /\ cli[c].pc = "done" => LastLine(cliLog[c]) = "replied"

\* the bind failed, one initiator was refused, and both printed their error
C15_Witness ==
    /\ srv.pc = "done"
    /\ LastLine(srvLog[0]) = "error"
    /\ \E c \in Clients :
        /\ cli[c].pc = "failed"
        /\ conn[c].tcp = "none"
        /\ CliLogged(c, "connecting")
        /\ LastLine(cliLog[c]) = "error"

\* C16: when a session has ended in failure and the failure has been
\* handled, its transport is closed: the accepted connection in run_server,
\* the connecting socket in run_client, the listening socket after a failed
\* bind.
C16_FailedSessionTransportClosed ==
    /\ srv.pc = "done" => ~srv.listening
    /\ \A c \in Clients :
        /\ HadConnectionError(c) => conn[c].srvClosed
        /\ (cli[c].pc = "failed" /\ conn[c].tcp = "connected") => conn[c].cliClosed

\* run_server is in its loop, at line 146 or serving a connection
SrvInLoop == srv.listening /\ srv.pc \in {"accept", "handshake", "recv", "send"}

\* C17: a session that failed in run_server affects only itself: run_server
\* is back in its loop and serves other connections, and it does not fail the
\* handshake of a later initiator whose certificate verifies.
C17_FailedSessionAffectsOnlyItself ==
    \A c \in Clients :
        HadConnectionError(c)
            => /\ SrvInLoop
               /\ srv.cur # c
               /\ \A d \in Clients :
                    (d > c /\ conn[d].cliFlight = "sent"
                        /\ ServerTrustsPeer(cli[d].cert, srv.bundle))
                        => conn[d].srvHs # "failed"

\* a session failed, and an initiator accepted after it exchanged the
\* greetings with run_server (accept serves the initiators in their order)
C17_Witness ==
    \E c \in Clients, d \in Clients :
        /\ c < d
        /\ HadConnectionError(c)
        /\ SrvLogged(d, "handshake_successful")
        /\ conn[d].srvRecvd = <<ClientGreeting>>
        /\ conn[d].cliRecvd = <<ServerGreeting>>

ClientIdentityLines == {"verified_client_identity", "spiffe_id", "client_identity"}

\* C18: in one session of run_server the client-identity lines are printed
\* only after the handshake has completed with a certificate that verifies,
\* and before the first read or write of payload.
C18_IdentityLoggedAfterHandshakeBeforePayload ==
    \A c \in Clients :
        /\ (\E i \in 1..Len(srvLog[c]) : srvLog[c][i].line \in ClientIdentityLines)
            => /\ conn[c].srvHs = "ok"
               /\ conn[c].cliFlight = "sent"
               /\ ServerTrustsPeer(cli[c].cert, srv.bundle)
        /\ \A i \in 1..Len(srvLog[c]), j \in 1..Len(srvLog[c]) :
            (srvLog[c][i].line \in ClientIdentityLines /\ srvLog[c][j].line = "received")
                => i < j
        /\ (SrvLogged(c, "received") \/ conn[c].srvRecvd # <<>> \/ conn[c].srvSent # <<>>)
            => SrvLogged(c, "verified_client_identity")

\* run_server printed the identity of an initiator and then read its greeting
C18_Witness ==
    \E c \in Clients :
        /\ SrvLogged(c, "spiffe_id")
        /\ SrvLogged(c, "client_identity")
        /\ SrvLogged(c, "received")
        /\ conn[c].srvRecvd = <<ClientGreeting>>

\* C19: a session that reached Established never ends in Failed, on either
\* side, and a session whose verification failed in run_server never shows
\* an Established state in run_client.
C19_NoFailureAfterEstablished ==
    \A c \in Clients :
        /\ ~(CliLogged(c, "handshake_successful") /\ cli[c].pc = "failed")
        /\ ~(SrvLogged(c, "handshake_successful") /\ HadConnectionError(c))
        /\ conn[c].srvHs = "failed" => ~CliLogged(c, "handshake_successful")

\* C20: run_client attempts its connect only once run_server has bound its
\* socket and listens.
C20_ConnectOnlyAfterListening ==
    \A c \in Clients : CliLogged(c, "connecting") => srv.listening

\* C21: the looping responder dispatches each accepted connection
\* independently: while a session is in its handshake or blocked in its
\* read, a connection that waits in the listening socket's queue can be
\* accepted, so a slow or stalled session never blocks new accepts.
C21_StalledSessionNeverBlocksAccept ==
    (SrvInLoop /\ Backlog # {}) => ENABLED SrvAccept

---------------------------------------------------------------------------
(* Claims about both responders (checked under SpecResponders)             *)

CountLines(log, line) == Cardinality({i \in 1..Len(log) : log[i].line = line})

\* the responder accepted connection c and has neither closed it nor
\* reported an error for it
SrvBusyWith(c) ==
    /\ Accepted(c)
    /\ ~conn[c].srvClosed
    /\ CountLines(srvLog[c], "connection_error") = 0
    /\ CountLines(srvLog[c], "error") = 0

\* C22: the responder handles one inbound connection per listen-accept
\* cycle: a connection it accepted gets at most one handshake and one
\* greeting exchange, and it is busy with at most one connection at a time;
\* phase_1's run_server accepts once and the listening socket is closed when
\* it is done.
C22_OneConnectionPerAcceptCycle ==
    /\ \A c \in Clients :
         /\ CountLines(srvLog[c], "accepted") <= 1
         /\ CountLines(srvLog[c], "handshake_successful") <= 1
         /\ Len(conn[c].srvRecvd) <= 1
         /\ Len(conn[c].srvSent) <= 1
    /\ Cardinality({c \in Clients : SrvBusyWith(c)}) <= 1
    /\ Phase1 => Cardinality({c \in Clients : Accepted(c)}) <= 1
    /\ srv.pc = "p1_done" => ~srv.listening

\* phase_1's run_server served its one connection and returned while a
\* second connection waited in the queue
C22_Witness ==
    /\ srv.pc = "p1_done"
    /\ conn[1].srvRecvd = <<ClientGreeting>>
    /\ conn[1].srvSent = <<ServerGreeting>>
    /\ conn[2].tcp = "connected"
    /\ ~Accepted(2)

---------------------------------------------------------------------------
(* Claims about the process (checked under SpecMain and SpecMainFair)      *)

\* the process runs in self-contained mode: no 'server' or 'client' argument
SelfContained == main.called = {"run_server", "run_client"}

\* C25: in self-contained mode, under fair scheduling, the process
\* terminates: once the greeting exchange has completed or failed (run_client
\* has returned), the responder thread finishes, t.join() returns and main
\* reaches its completion banner.
C25_SelfContainedModeTerminates ==
    (SelfContained /\ ClientReturned) ~> (main.pc = "completed")

\* C26: 'Demo completed successfully!' is printed only if the session the
\* process ran reached Established and the greetings were exchanged; after a
\* session that failed (connect, handshake or I/O error) the demo is not
\* reported as successfully completed.
C26_SuccessReportedOnlyAfterExchange ==
    main.pc = "completed"
        => /\ cli[MainClient].pc = "done"
           /\ CliLogged(MainClient, "handshake_successful")
           /\ conn[MainClient].srvRecvd = <<ClientGreeting>>
           /\ conn[MainClient].cliRecvd = <<ServerGreeting>>

\* a socket was created, a connection made or a session function entered
SessionStarted ==
    \/ main.called # {}
    \/ srv.pc # "start"
    \/ \E c \in Clients : cli[c].pc # "start" \/ conn[c].tcp # "none"

\* C27: no session is started (neither run_server nor run_client is called)
\* unless fetch_svids returned True and svid.0.pem, svid.0.key and
\* bundle.0.pem all exist; otherwise the process exits with status 1 before
\* any socket is opened.
C27_NoSessionWithoutCredentials ==
    /\ SessionStarted => (main.fetch.returned = TRUE /\ AllFiles \subseteq main.files)
    /\ (main.pc \notin {"start", "fetched"}
            /\ ~(main.fetch.returned = TRUE /\ AllFiles \subseteq main.files))
        => (main.pc = "exited" /\ main.sys_exit = <<1>> /\ ~SessionStarted)

\* fetch_svids returned True, the bundle is not on disk, and the process
\* exited without a session
C27_Witness ==
    /\ main.pc = "exited"
    /\ main.fetch.returned = TRUE
    /\ main.files = {"svid.0.pem", "svid.0.key"}
    /\ main.sys_exit = <<1>>
    /\ ~SessionStarted

\* the binary or the socket is missing, or the fetch command exited with an
\* error, timed out or could not be run
FetchCannotSucceed(env) ==
    \/ ~env.binary
    \/ ~env.socket
    \/ env.fetch.kind # "exit"
    \/ env.fetch.returncode # 0

\* C28: fetch_svids never raises, and returns False whenever the agent binary
\* or the agent socket is missing, the fetch command exits with a non-zero
\* code (whatever its stderr says), times out, or another exception occurs;
\* in all these cases check_tpm_attestation is not run and no 'TPM
\* Attestation is ACTIVE' line is printed.
C28_FetchFailuresReturnFalse ==
    main.pc # "start"
        => /\ main.fetch.raised = ""
           /\ FetchCannotSucceed(main.env)
                => /\ main.fetch.returned = FALSE
                   /\ ~main.fetch.tpm_checked
                   /\ \A i \in 1..Len(main.lines) : main.lines[i] # "tpm_attestation_active"

\* the fetch command was denied with a message that names neither PCR nor
\* mismatch, where the attestation query would have reported TPM
C28_Witness ==
    /\ main.pc = "exited"
    /\ main.env.binary /\ main.env.socket
    /\ main.env.fetch = CmdRun("exit", 1, <<>>, <<"n", "o", " ", "i", "d", "e", "n", "t", "i", "t", "y">>)
    /\ main.env.tpm = CmdRun("exit", 0, <<"a", "g", "e", "n", "t", "/", "T", "P", "M", "/", "a", "b">>, <<>>)
    /\ main.fetch.returned = FALSE
    /\ ~main.fetch.tpm_checked

=============================================================================
